---- MODULE Spec2Model ----
(***************************************************************************)
(* Model of the movement-sourced ledger of src/main.py: the tables of the  *)
(* database (catalogs, documents, movement logs, materialized balances)    *)
(* and the handlers that write them.                                       *)
(*                                                                         *)
(* One action is one handler run from its first statement to its commit    *)
(* (specification Spec).  Specification SpecConc splits sale_confirm at    *)
(* the point where its reads end and its writes begin, to let two handler  *)
(* tasks of the asyncio dispatcher interleave.  SpecPairs has two products *)
(* and bank accounts, SpecEdit follows a delete by the re-entry of the     *)
(* same document, and SpecTx runs sale_confirm and cb_sale_del statement   *)
(* by statement inside their transaction, next to a reader.                *)
(*                                                                         *)
(* Quantities and amounts are Decimal in the source and integers here.     *)
(* Columns that no handler reads back in a condition (dates, created_at,   *)
(* payment_method, warehouse_name/product_name of a Debtor, the supplier   *)
(* of an Income) are left out of the rows.                                 *)
(* Primary keys are SQLite rowids (INTEGER PRIMARY KEY without             *)
(* AUTOINCREMENT): a new row gets max(id) + 1, or 1 in an empty table.     *)
(***************************************************************************)
EXTENDS Integers, Sequences, FiniteSets, TLC

\* ---- bounds of the model ------------------------------------------------
MaxWarehouses == 1
MaxProducts == 1
MaxBanks == 1
MaxSales == 2
MaxIncomes == 1
MaxDebtors == 2
MaxQty == 2
MaxPrice == 1
MaxCustomers == 1
MaxMovements == 4
NumTasks == 2
MaxPairProducts == 2
\* the sales one conversation confirms in the wizard specifications
MaxWizardSales == 1
MaxUsers == 2
\* the unanswered access requests of one user
MaxRequests == 2

\* ---- values ------------------------------------------------------------
\* bank_id IS NULL
NULL == 0

AccountTypes == {"cash", "bank", "ip"}
\* what a sale_acc:/inc_acc: callback can leave in the wizard data
AccountInputs == AccountTypes \cup {"other"}
BankInputs == {NULL} \cup (1..MaxBanks)
WarehouseNames == 1..MaxWarehouses
ProductNames == 1..MaxProducts
BankNames == 1..MaxBanks
CustomerNames == 1..MaxCustomers
CustomerPhones == {"-"}
Qtys == 1..MaxQty
Prices == 1..MaxPrice
Tasks == 1..NumTasks
\* the Telegram ids: the owner and the other users
OWNER_ID == 1
Users == 1..MaxUsers

VARIABLES
    warehouses,       \* table warehouses: rows [id, name]
    products,         \* table products: rows [id, name]
    banks,            \* table banks: rows [id, name]
    sales,            \* table sales
    incomes,          \* table incomes
    debtors,          \* table debtors
    stock_movements,  \* table stock_movements
    money_movements,  \* table money_movements
    stocks,           \* table stocks (rebuilt by recalc_stocks)
    money_ledger,     \* table money_ledger, in id order (ids are 1..Len)
    reply,            \* the answer the last handler sent to the chat
    tasks,            \* the handler tasks that are between two awaits
    fsm,              \* the FSM context of one conversation: state and data
    allowed_users,    \* table allowed_users: the user_id of its rows
    from_user,        \* the sender of the update that is being handled
    access_requests   \* per user, the access requests open in the owner's chat

catalogs == <<warehouses, products, banks>>
documents == <<sales, incomes, debtors>>
movements == <<stock_movements, money_movements>>
balances == <<stocks, money_ledger>>
tables == <<catalogs, documents, movements, balances>>
access == <<allowed_users, from_user, access_requests>>
vars == <<tables, reply, tasks, fsm, access>>

\* ---- helpers -----------------------------------------------------------
Max(S) == CHOOSE x \in S : \A y \in S : y <= x

\* the rowid SQLite gives the next inserted row
NextId(rows) == IF rows = {} THEN 1 ELSE Max({r.id : r \in rows}) + 1

Ids(rows) == {r.id : r \in rows}

\* session.get(Model, id)
Get(rows, id) == CHOOSE r \in rows : r.id = id

RECURSIVE SumQty(_)
\* func.sum(StockMovement.qty_kg) over a set of movement rows
SumQty(ms) ==
    IF ms = {} THEN 0
    ELSE LET m == CHOOSE x \in ms : TRUE
         IN m.qty_kg + SumQty(ms \ {m})

RECURSIVE SumAmount(_)
\* func.sum(MoneyMovement.amount) over a set of movement rows
SumAmount(ms) ==
    IF ms = {} THEN 0
    ELSE LET m == CHOOSE x \in ms : TRUE
         IN m.amount + SumAmount(ms \ {m})

RECURSIVE OrderById(_)
\* select(...).order_by(id)
OrderById(rows) ==
    IF rows = {} THEN <<>>
    ELSE LET r == CHOOSE x \in rows : \A y \in rows : x.id <= y.id
         IN <<r>> \o OrderById(rows \ {r})

Abs(x) == IF x >= 0 THEN x ELSE -x

\* one decimal digit as text
Digit(d) ==
    CASE d = 0 -> "0" [] d = 1 -> "1" [] d = 2 -> "2" [] d = 3 -> "3" [] d = 4 -> "4"
      [] d = 5 -> "5" [] d = 6 -> "6" [] d = 7 -> "7" [] d = 8 -> "8" [] d = 9 -> "9"

RECURSIVE NatStr(_)
NatStr(n) == IF n < 10 THEN Digit(n) ELSE NatStr(n \div 10) \o Digit(n % 10)

\* f"{x:.3f}".rstrip("0").rstrip("."): a whole number of kilograms loses
\* its ".000" and keeps its sign
fmt_kg(x) == IF x < 0 THEN "-" \o NatStr(-x) ELSE NatStr(x)

\* coalesce(sum(qty_kg), 0) where warehouse_id = w and product_id = p
StockSum(sm, w, p) ==
    SumQty({m \in sm : m.warehouse_id = w /\ m.product_id = p})

\* the balance show_money reports for one account key
show_money(mm, acc, bank) ==
    SumAmount({m \in mm : m.account_type = acc /\ m.bank_id = bank})

\* ---- the balance materializer ------------------------------------------
recalc_stocks_keep_old(old, sm) ==
    old \cup
    {[warehouse_id |-> k[1], product_id |-> k[2], qty_kg |-> StockSum(sm, k[1], k[2])] :
        k \in {<<m.warehouse_id, m.product_id>> : m \in sm}}

recalc_stocks_last_row(old, sm) ==
    {[warehouse_id |-> m.warehouse_id, product_id |-> m.product_id, qty_kg |-> m.qty_kg] :
        m \in {x \in sm : \A y \in sm :
                  (y.warehouse_id = x.warehouse_id /\ y.product_id = x.product_id)
                  => y.id <= x.id}}

\* delete(Stock), then one row per (warehouse_id, product_id) group
recalc_stocks(old, sm) ==
    {[warehouse_id |-> k[1], product_id |-> k[2], qty_kg |-> StockSum(sm, k[1], k[2])] :
        k \in {<<m.warehouse_id, m.product_id>> : m \in sm}}

LedgerRow(mv) ==
    [direction |-> IF mv.amount >= 0 THEN "in" ELSE "out",
     account_type |-> mv.account_type,
     bank_id |-> mv.bank_id,
     amount |-> Abs(mv.amount),
     note |-> <<mv.doc_type, mv.doc_id>>]

\* delete(MoneyLedger), then one row per movement in id order
recalc_money_ledger(mm) ==
    LET ordered == OrderById(mm)
    IN [i \in 1..Len(ordered) |-> LedgerRow(ordered[i])]

\* ---- the FSM context of a conversation (MemoryStorage) ------------------
\* a key that is not in the wizard data
Missing == "missing"
\* message.text of a message without text (a photo, a sticker)
NoText == "no_text"

\* the wizard data after state.clear(). The keys are the ones sale_confirm
\* indexes; customer_name, customer_phone, delivery, payment_method,
\* account_type, bank_id and cur_menu are read with a default and are not
\* modelled. qty and price hold texts, the ids hold integers; is_paid is read
\* as bool(data.get("is_paid")), so an absent key reads as FALSE.
NoData ==
    [doc_date |-> Missing, warehouse_id |-> NULL, product_id |-> NULL,
     qty |-> Missing, price |-> Missing, is_paid |-> FALSE]

\* the state None, and the states of the two StatesGroups
NoState == [group |-> "None", step |-> "None"]
SaleWizard(step) == [group |-> "SaleWizard", step |-> step]
DebtorWizard(step) == [group |-> "DebtorWizard", step |-> step]

\* the context after state.clear()
NoContext == [state |-> NoState, data |-> NoData]

\* ---- initial state: the empty database created by main() ----------------
IdleTask == [pc |-> "idle"]

Init ==
    /\ warehouses = {}
    /\ products = {}
    /\ banks = {}
    /\ sales = {}
    /\ incomes = {}
    /\ debtors = {}
    /\ stock_movements = {}
    /\ money_movements = {}
    /\ stocks = {}
    /\ money_ledger = <<>>
    /\ reply = "none"
    /\ tasks = [t \in Tasks |-> IdleTask]
    /\ fsm = NoContext
    /\ allowed_users = {OWNER_ID}
    /\ from_user = OWNER_ID
    /\ access_requests = [u \in Users |-> 0]

\* ---- catalogs ----------------------------------------------------------
\* get-or-create of a catalog row by name
wh_add(name) ==
    /\ IF \E w \in warehouses : w.name = name
       THEN /\ reply' = "warehouse_exists"
            /\ UNCHANGED warehouses
       ELSE /\ warehouses' = warehouses \cup {[id |-> NextId(warehouses), name |-> name]}
            /\ reply' = "warehouse_added"
    /\ UNCHANGED <<products, banks, documents, movements, balances, tasks, fsm, access>>

prod_add(name) ==
    /\ IF \E p \in products : p.name = name
       THEN /\ reply' = "product_exists"
            /\ UNCHANGED products
       ELSE /\ products' = products \cup {[id |-> NextId(products), name |-> name]}
            /\ reply' = "product_added"
    /\ UNCHANGED <<warehouses, banks, documents, movements, balances, tasks, fsm, access>>

bank_add(name) ==
    /\ IF \E b \in banks : b.name = name
       THEN /\ reply' = "bank_exists"
            /\ UNCHANGED banks
       ELSE /\ banks' = banks \cup {[id |-> NextId(banks), name |-> name]}
            /\ reply' = "bank_added"
    /\ UNCHANGED <<warehouses, products, documents, movements, balances, tasks, fsm, access>>

\* delete of a catalog row by name, refused while a balance row names it
wh_del(name) ==
    /\ IF ~\E w \in warehouses : w.name = name
       THEN /\ reply' = "warehouse_not_found"
            /\ UNCHANGED warehouses
       ELSE LET w == CHOOSE x \in warehouses : x.name = name
            IN IF \E r \in stocks : r.warehouse_id = w.id
               THEN /\ reply' = "warehouse_in_use"
                    /\ UNCHANGED warehouses
               ELSE /\ warehouses' = warehouses \ {w}
                    /\ reply' = "warehouse_deleted"
    /\ UNCHANGED <<products, banks, documents, movements, balances, tasks, fsm, access>>

prod_del(name) ==
    /\ IF ~\E p \in products : p.name = name
       THEN /\ reply' = "product_not_found"
            /\ UNCHANGED products
       ELSE LET p == CHOOSE x \in products : x.name = name
            IN IF \E r \in stocks : r.product_id = p.id
               THEN /\ reply' = "product_in_use"
                    /\ UNCHANGED products
               ELSE /\ products' = products \ {p}
                    /\ reply' = "product_deleted"
    /\ UNCHANGED <<warehouses, banks, documents, movements, balances, tasks, fsm, access>>

bank_del_unchecked(name) ==
    /\ IF ~\E b \in banks : b.name = name
       THEN /\ reply' = "bank_not_found"
            /\ UNCHANGED banks
       ELSE /\ banks' = {b \in banks : b.name # name}
            /\ reply' = "bank_deleted"
    /\ UNCHANGED <<warehouses, products, documents, movements, balances, tasks, fsm, access>>

bank_del(name) ==
    /\ IF ~\E b \in banks : b.name = name
       THEN /\ reply' = "bank_not_found"
            /\ UNCHANGED banks
       ELSE LET b == CHOOSE x \in banks : x.name = name
            IN IF \E i \in 1..Len(money_ledger) : money_ledger[i].bank_id = b.id
               THEN /\ reply' = "bank_in_use"
                    /\ UNCHANGED banks
               ELSE /\ banks' = banks \ {b}
                    /\ reply' = "bank_deleted"
    /\ UNCHANGED <<warehouses, products, documents, movements, balances, tasks, fsm, access>>

\* ---- Create Sale -------------------------------------------------------
\* the wizard data sale_confirm reads with state.get_data()
SaleData ==
    [customer_name : CustomerNames, customer_phone : CustomerPhones,
     warehouse_id : 1..MaxWarehouses, product_id : 1..MaxProducts,
     qty : Qtys, price : Prices, is_paid : BOOLEAN,
     account_type : AccountInputs, bank_id : BankInputs]

NormAccount_as_given(account_type) == account_type

\* account_type after "if account_type not in (cash, bank, ip)"
NormAccount(account_type) ==
    IF account_type \in AccountTypes THEN account_type ELSE "cash"

\* bank_id after "if account_type == cash: bank_id = None"
NormBank(account_type, bank_id) ==
    IF NormAccount(account_type) = "cash" THEN NULL ELSE bank_id

InsufficientStock_never(cur_qty, qty) == FALSE

InsufficientStock_or_equal(cur_qty, qty) == cur_qty <= qty

\* the stock check: "if cur_qty < qty"
InsufficientStock(cur_qty, qty) == cur_qty < qty

\* everything sale_confirm reads and decides before its first insert
sale_check(d) ==
    LET acc == NormAccount(d.account_type)
    IN IF acc # "cash" /\ d.bank_id = NULL THEN "choose_bank"
       ELSE IF d.warehouse_id \notin Ids(warehouses) \/ d.product_id \notin Ids(products)
            THEN "error"
       ELSE IF acc # "cash" /\ d.bank_id \notin Ids(banks) THEN "bank_not_found"
       ELSE IF InsufficientStock(StockSum(stock_movements, d.warehouse_id, d.product_id), d.qty)
            THEN "sale_insufficient"
       ELSE "ok"

\* Sale(...), with the rowid the flush gives it
NewSale(d, id) ==
    LET acc == NormAccount(d.account_type)
        bank == NormBank(d.account_type, d.bank_id)
    IN [id |-> id,
        customer_name |-> d.customer_name,
        customer_phone |-> d.customer_phone,
        warehouse_id |-> d.warehouse_id,
        product_id |-> d.product_id,
        qty_kg |-> d.qty,
        price_per_kg |-> d.price,
        total_amount |-> d.qty * d.price,
        is_paid |-> d.is_paid,
        account_type |-> IF d.is_paid THEN acc ELSE "cash",
        bank_id |-> IF d.is_paid /\ acc # "cash" THEN bank ELSE NULL]

\* StockMovement(qty_kg=-qty, doc_type="sale", doc_id=sale.id)
NewSaleStockMovement(d, id, sale_id) ==
    [id |-> id,
     warehouse_id |-> d.warehouse_id,
     product_id |-> d.product_id,
     qty_kg |-> -d.qty,
     doc_type |-> "sale",
     doc_id |-> sale_id]

\* MoneyMovement(amount=total, doc_type="sale", doc_id=sale.id)
NewSaleMoneyMovement(d, id, sale_id) ==
    LET acc == NormAccount(d.account_type)
        bank == NormBank(d.account_type, d.bank_id)
    IN [id |-> id,
        account_type |-> acc,
        bank_id |-> IF acc # "cash" THEN bank ELSE NULL,
        amount |-> d.qty * d.price,
        doc_type |-> "sale",
        doc_id |-> sale_id]

\* Debtor(..., is_paid=False) of an unpaid sale
NewSaleDebtor(d, id) ==
    [id |-> id,
     customer_name |-> d.customer_name,
     customer_phone |-> d.customer_phone,
     qty_kg |-> d.qty,
     price_per_kg |-> d.price,
     total_amount |-> d.qty * d.price,
     is_paid |-> FALSE]

\* the inserts of sale_confirm and the two recomputes, committed together
sale_write(d) ==
    LET sale == NewSale(d, NextId(sales))
        sm == stock_movements \cup
                {NewSaleStockMovement(d, NextId(stock_movements), sale.id)}
        mm == IF d.is_paid
              THEN money_movements \cup
                     {NewSaleMoneyMovement(d, NextId(money_movements), sale.id)}
              ELSE money_movements
    IN /\ NextId(sales) <= MaxSales
       /\ NextId(stock_movements) <= MaxMovements
       /\ d.is_paid => NextId(money_movements) <= MaxMovements
       /\ ~d.is_paid => NextId(debtors) <= MaxDebtors
       /\ sales' = sales \cup {sale}
       /\ stock_movements' = sm
       /\ money_movements' = mm
       /\ debtors' = IF d.is_paid THEN debtors
                     ELSE debtors \cup {NewSaleDebtor(d, NextId(debtors))}
       /\ stocks' = recalc_stocks(stocks, sm)
       /\ money_ledger' = recalc_money_ledger(mm)
       /\ UNCHANGED <<catalogs, incomes>>

\* the text of the "not enough stock" answer: what there is, what is needed
insufficient_answer(cur_qty, qty) ==
    "sale_insufficient have " \o fmt_kg(cur_qty) \o " need " \o fmt_kg(qty)

\* what sale_confirm answers when it returns before its first insert
sale_refusal(d) ==
    IF sale_check(d) = "sale_insufficient"
    THEN insufficient_answer(StockSum(stock_movements, d.warehouse_id, d.product_id), d.qty)
    ELSE sale_check(d)

sale_confirm_as_unpaid(d) ==
    /\ IF sale_check(d) = "ok"
       THEN /\ sale_write([d EXCEPT !.is_paid = FALSE])
            /\ reply' = "sale_saved"
       ELSE /\ reply' = sale_refusal(d)
            /\ UNCHANGED tables
    /\ UNCHANGED <<tasks, fsm, access>>

sale_confirm(d) ==
    /\ IF sale_check(d) = "ok"
       THEN /\ sale_write(d)
            /\ reply' = "sale_saved"
       ELSE /\ reply' = sale_refusal(d)
            /\ UNCHANGED tables
    /\ UNCHANGED <<tasks, fsm, access>>

\* ---- Create Income -----------------------------------------------------
IncomeData ==
    [warehouse_id : 1..MaxWarehouses, product_id : 1..MaxProducts,
     qty : Qtys, price : Prices, add_money_entry : BOOLEAN,
     account_type : AccountInputs, bank_id : BankInputs]

inc_check_balance(d) ==
    LET acc == NormAccount(d.account_type)
    IN IF acc # "cash" /\ d.bank_id = NULL THEN "choose_bank"
       ELSE IF d.warehouse_id \notin Ids(warehouses) \/ d.product_id \notin Ids(products)
            THEN "error"
       ELSE IF acc # "cash" /\ d.bank_id \notin Ids(banks) THEN "bank_not_found"
       ELSE IF StockSum(stock_movements, d.warehouse_id, d.product_id) < 0
            THEN "income_refused"
       ELSE "ok"

inc_check(d) ==
    LET acc == NormAccount(d.account_type)
    IN IF acc # "cash" /\ d.bank_id = NULL THEN "choose_bank"
       ELSE IF d.warehouse_id \notin Ids(warehouses) \/ d.product_id \notin Ids(products)
            THEN "error"
       ELSE IF acc # "cash" /\ d.bank_id \notin Ids(banks) THEN "bank_not_found"
       ELSE "ok"

inc_write(d) ==
    LET acc == NormAccount(d.account_type)
        bank == NormBank(d.account_type, d.bank_id)
        total == d.qty * d.price
        inc == [id |-> NextId(incomes),
                warehouse_id |-> d.warehouse_id,
                product_id |-> d.product_id,
                qty_kg |-> d.qty,
                price_per_kg |-> d.price,
                total_amount |-> total,
                add_money_entry |-> d.add_money_entry,
                account_type |-> IF d.add_money_entry THEN acc ELSE "cash",
                bank_id |-> IF d.add_money_entry /\ acc # "cash" THEN bank ELSE NULL]
        sm == stock_movements \cup
                {[id |-> NextId(stock_movements),
                  warehouse_id |-> d.warehouse_id,
                  product_id |-> d.product_id,
                  qty_kg |-> d.qty,
                  doc_type |-> "income",
                  doc_id |-> inc.id]}
        mm == IF d.add_money_entry
              THEN money_movements \cup
                     {[id |-> NextId(money_movements),
                       account_type |-> acc,
                       bank_id |-> IF acc # "cash" THEN bank ELSE NULL,
                       amount |-> -total,
                       doc_type |-> "income",
                       doc_id |-> inc.id]}
              ELSE money_movements
    IN /\ NextId(incomes) <= MaxIncomes
       /\ NextId(stock_movements) <= MaxMovements
       /\ d.add_money_entry => NextId(money_movements) <= MaxMovements
       /\ incomes' = incomes \cup {inc}
       /\ stock_movements' = sm
       /\ money_movements' = mm
       /\ stocks' = recalc_stocks(stocks, sm)
       /\ money_ledger' = recalc_money_ledger(mm)
       /\ UNCHANGED <<catalogs, sales, debtors>>

inc_confirm(d) ==
    /\ IF inc_check(d) = "ok"
       THEN /\ inc_write(d)
            /\ reply' = "income_saved"
       ELSE /\ reply' = inc_check(d)
            /\ UNCHANGED tables
    /\ UNCHANGED <<tasks, fsm, access>>

\* ---- Delete ------------------------------------------------------------
cb_sale_del_keep_movements(sale_id) ==
    /\ IF sale_id \notin Ids(sales)
       THEN /\ reply' = "sale_not_found"
            /\ UNCHANGED tables
       ELSE /\ sales' = {s \in sales : s.id # sale_id}
            /\ stocks' = recalc_stocks(stocks, stock_movements)
            /\ money_ledger' = recalc_money_ledger(money_movements)
            /\ reply' = "sale_deleted"
            /\ UNCHANGED <<catalogs, incomes, debtors, movements>>
    /\ UNCHANGED <<tasks, fsm, access>>

sale_del_write_any_type(sale_id) ==
    LET sm == {m \in stock_movements : m.doc_id # sale_id}
        mm == {m \in money_movements : m.doc_id # sale_id}
    IN /\ stock_movements' = sm
       /\ money_movements' = mm
       /\ sales' = {s \in sales : s.id # sale_id}
       /\ stocks' = recalc_stocks(stocks, sm)
       /\ money_ledger' = recalc_money_ledger(mm)
       /\ UNCHANGED <<catalogs, incomes, debtors>>

sale_del_write_with_debtor(sale_id) ==
    LET sm == {m \in stock_movements : ~(m.doc_type = "sale" /\ m.doc_id = sale_id)}
        mm == {m \in money_movements : ~(m.doc_type = "sale" /\ m.doc_id = sale_id)}
        sale == Get(sales, sale_id)
    IN /\ stock_movements' = sm
       /\ money_movements' = mm
       /\ sales' = {s \in sales : s.id # sale_id}
       /\ debtors' = {d \in debtors : ~(/\ d.customer_name = sale.customer_name
                                        /\ d.total_amount = sale.total_amount
                                        /\ ~d.is_paid)}
       /\ stocks' = recalc_stocks(stocks, sm)
       /\ money_ledger' = recalc_money_ledger(mm)
       /\ UNCHANGED <<catalogs, incomes>>

\* the three deletes of cb_sale_del and the two recomputes
sale_del_write(sale_id) ==
    LET sm == {m \in stock_movements : ~(m.doc_type = "sale" /\ m.doc_id = sale_id)}
        mm == {m \in money_movements : ~(m.doc_type = "sale" /\ m.doc_id = sale_id)}
    IN /\ stock_movements' = sm
       /\ money_movements' = mm
       /\ sales' = {s \in sales : s.id # sale_id}
       /\ stocks' = recalc_stocks(stocks, sm)
       /\ money_ledger' = recalc_money_ledger(mm)
       /\ UNCHANGED <<catalogs, incomes, debtors>>

cb_sale_del(sale_id) ==
    /\ IF sale_id \notin Ids(sales)
       THEN /\ reply' = "sale_not_found"
            /\ UNCHANGED tables
       ELSE /\ sale_del_write(sale_id)
            /\ reply' = "sale_deleted"
    /\ UNCHANGED <<tasks, fsm, access>>

cb_inc_del_keep_money(income_id) ==
    /\ IF income_id \notin Ids(incomes)
       THEN /\ reply' = "income_not_found"
            /\ UNCHANGED tables
       ELSE LET sm == {m \in stock_movements : ~(m.doc_type = "income" /\ m.doc_id = income_id)}
            IN /\ stock_movements' = sm
               /\ incomes' = {i \in incomes : i.id # income_id}
               /\ stocks' = recalc_stocks(stocks, sm)
               /\ money_ledger' = recalc_money_ledger(money_movements)
               /\ reply' = "income_deleted"
               /\ UNCHANGED <<catalogs, sales, debtors, money_movements>>
    /\ UNCHANGED <<tasks, fsm, access>>

\* the three deletes of cb_inc_del and the two recomputes
inc_del_write(income_id) ==
    LET sm == {m \in stock_movements : ~(m.doc_type = "income" /\ m.doc_id = income_id)}
        mm == {m \in money_movements : ~(m.doc_type = "income" /\ m.doc_id = income_id)}
    IN /\ stock_movements' = sm
       /\ money_movements' = mm
       /\ incomes' = {i \in incomes : i.id # income_id}
       /\ stocks' = recalc_stocks(stocks, sm)
       /\ money_ledger' = recalc_money_ledger(mm)
       /\ UNCHANGED <<catalogs, sales, debtors>>

cb_inc_del_unchecked(income_id) ==
    /\ inc_del_write(income_id)
    /\ reply' = "income_deleted"
    /\ UNCHANGED <<tasks, fsm, access>>

cb_inc_del(income_id) ==
    /\ IF income_id \notin Ids(incomes)
       THEN /\ reply' = "income_not_found"
            /\ UNCHANGED tables
       ELSE /\ inc_del_write(income_id)
            /\ reply' = "income_deleted"
    /\ UNCHANGED <<tasks, fsm, access>>

\* ---- Mark a sale paid --------------------------------------------------
\* select(Debtor).where(name, phone, total equal, is_paid == False): the
\* open debtors that cb_sale_paid_id matches to a sale by value
MatchingDebtors(sale) ==
    {d \in debtors : /\ d.customer_name = sale.customer_name
                     /\ d.customer_phone = sale.customer_phone
                     /\ d.total_amount = sale.total_amount
                     /\ ~d.is_paid}

\* s.scalar(...): the first row of the result, in rowid order
FirstRow(rows) == CHOOSE r \in rows : \A o \in rows : r.id <= o.id

cb_sale_paid_id_unguarded(sale_id) ==
    /\ IF sale_id \notin Ids(sales)
       THEN /\ reply' = "sale_paid_not_found"
            /\ UNCHANGED tables
       ELSE LET sale == Get(sales, sale_id)
                account_type == sale.account_type
                bank_id == IF account_type \in {"bank", "ip"} THEN sale.bank_id ELSE NULL
                matched == MatchingDebtors(sale)
            IN /\ sales' = (sales \ {sale}) \cup {[sale EXCEPT !.is_paid = TRUE]}
               /\ money_ledger' = Append(money_ledger,
                      [direction |-> "in",
                       account_type |-> account_type,
                       bank_id |-> bank_id,
                       amount |-> sale.total_amount,
                       note |-> <<"sale_payment", sale.id>>])
               /\ debtors' = IF matched = {} THEN debtors
                             ELSE LET d == FirstRow(matched)
                                  IN (debtors \ {d}) \cup {[d EXCEPT !.is_paid = TRUE]}
               /\ reply' = "sale_marked_paid"
               /\ UNCHANGED <<catalogs, incomes, movements, stocks>>
    /\ UNCHANGED <<tasks, fsm, access>>

cb_sale_paid_id(sale_id) ==
    /\ IF sale_id \notin Ids(sales)
       THEN /\ reply' = "sale_paid_not_found"
            /\ UNCHANGED tables
       ELSE LET sale == Get(sales, sale_id)
            IN IF sale.is_paid
               THEN /\ reply' = "sale_already_paid"
                    /\ UNCHANGED tables
               ELSE LET account_type == sale.account_type
                        bank_id == IF account_type \in {"bank", "ip"} THEN sale.bank_id ELSE NULL
                        matched == MatchingDebtors(sale)
                    IN /\ sales' = (sales \ {sale}) \cup {[sale EXCEPT !.is_paid = TRUE]}
                       /\ money_ledger' = Append(money_ledger,
                              [direction |-> "in",
                               account_type |-> account_type,
                               bank_id |-> bank_id,
                               amount |-> sale.total_amount,
                               note |-> <<"sale_payment", sale.id>>])
                       /\ debtors' = IF matched = {} THEN debtors
                                     ELSE LET d == FirstRow(matched)
                                          IN (debtors \ {d}) \cup {[d EXCEPT !.is_paid = TRUE]}
                       /\ reply' = "sale_marked_paid"
                       /\ UNCHANGED <<catalogs, incomes, movements, stocks>>
    /\ UNCHANGED <<tasks, fsm, access>>

\* ---- Debtors -----------------------------------------------------------
cb_deb_paid_toggle(debtor_id) ==
    /\ IF debtor_id \notin Ids(debtors)
       THEN /\ reply' = "debtor_not_found"
            /\ UNCHANGED tables
       ELSE LET d == Get(debtors, debtor_id)
            IN /\ debtors' = (debtors \ {d}) \cup {[d EXCEPT !.is_paid = ~d.is_paid]}
               /\ reply' = "debtor_marked_paid"
               /\ UNCHANGED <<catalogs, sales, incomes, movements, balances>>
    /\ UNCHANGED <<tasks, fsm, access>>

cb_deb_paid(debtor_id) ==
    /\ IF debtor_id \notin Ids(debtors)
       THEN /\ reply' = "debtor_not_found"
            /\ UNCHANGED tables
       ELSE LET d == Get(debtors, debtor_id)
            IN /\ debtors' = (debtors \ {d}) \cup {[d EXCEPT !.is_paid = TRUE]}
               /\ reply' = "debtor_marked_paid"
               /\ UNCHANGED <<catalogs, sales, incomes, movements, balances>>
    /\ UNCHANGED <<tasks, fsm, access>>

cb_deb_del(debtor_id) ==
    /\ debtors' = {d \in debtors : d.id # debtor_id}
    /\ reply' = "debtor_deleted"
    /\ UNCHANGED <<catalogs, sales, incomes, movements, balances, tasks, fsm, access>>

\* the wizard data deb_confirm reads (deb_qty accepts 0)
DebtorData ==
    [customer_name : CustomerNames, customer_phone : CustomerPhones,
     qty : 0..MaxQty, price : Prices]

deb_confirm(d) ==
    /\ NextId(debtors) <= MaxDebtors
    /\ debtors' = debtors \cup
                    {[id |-> NextId(debtors),
                      customer_name |-> d.customer_name,
                      customer_phone |-> d.customer_phone,
                      qty_kg |-> d.qty,
                      price_per_kg |-> d.price,
                      total_amount |-> d.qty * d.price,
                      is_paid |-> FALSE]}
    /\ reply' = "debtor_added"
    /\ UNCHANGED <<catalogs, sales, incomes, movements, balances, tasks, fsm, access>>

\* ---- sale_confirm as a task of the dispatcher --------------------------
\* up to the stock check: reads only, no transaction is open yet
sale_begin(t, d) ==
    /\ tasks[t].pc = "idle"
    /\ IF sale_check(d) = "ok"
       THEN /\ UNCHANGED <<fsm, access>>
            /\ tasks' = [tasks EXCEPT ![t] = [pc |-> "write", data |-> d]]
            /\ UNCHANGED reply
       ELSE /\ reply' = sale_refusal(d)
            /\ UNCHANGED <<tasks, fsm, access>>
    /\ UNCHANGED tables

\* from the first insert to the commit of "async with s.begin()"
sale_commit(t) ==
    /\ tasks[t].pc = "write"
    /\ sale_write(tasks[t].data)
    /\ reply' = "sale_saved"
    /\ UNCHANGED <<fsm, access>>
    /\ tasks' = [tasks EXCEPT ![t] = IdleTask]

\* ---- specifications ----------------------------------------------------
\* the wizard data of a document settled in cash (or not settled at all)
CashSaleData == {d \in SaleData : d.account_type = "cash" /\ d.bank_id = NULL}
CashIncomeData == {d \in IncomeData : d.account_type = "cash" /\ d.bank_id = NULL}

\* the handlers of the ledger, each run alone, on cash documents
Next ==
    \/ \E name \in WarehouseNames : wh_add(name)
    \/ \E name \in ProductNames : prod_add(name)
    \/ \E d \in CashSaleData : sale_confirm(d)
    \/ \E d \in CashIncomeData : inc_confirm(d)
    \/ \E id \in 1..MaxSales : cb_sale_del(id)
    \/ \E id \in 1..MaxIncomes : cb_inc_del(id)
    \/ \E id \in 1..MaxSales : cb_sale_paid_id(id)
    \/ \E id \in 1..MaxDebtors : cb_deb_paid(id)
    \/ \E id \in 1..MaxDebtors : cb_deb_del(id)
    \/ \E d \in DebtorData : deb_confirm(d)

Spec == Init /\ [][Next]_vars

\* stock comes in, and sale_confirm tasks interleave: nothing is deleted
NextConc ==
    \/ \E name \in WarehouseNames : wh_add(name)
    \/ \E name \in ProductNames : prod_add(name)
    \/ \E d \in CashIncomeData : inc_confirm(d)
    \/ \E t \in Tasks, d \in CashSaleData : sale_begin(t, d)
    \/ \E t \in Tasks : sale_commit(t)

SpecConc == Init /\ [][NextConc]_vars

\* the wizard data of documents on several products and on cash or bank
\* accounts
PairProductNames == 1..MaxPairProducts

\* sale_status_chosen leaves an unpaid sale on cash; sale_bank_pick stores
\* the bank picked for a bank account
PairSaleData ==
    {d \in [customer_name : CustomerNames, customer_phone : CustomerPhones,
            warehouse_id : 1..MaxWarehouses, product_id : 1..MaxPairProducts,
            qty : Qtys, price : Prices, is_paid : BOOLEAN,
            account_type : {"cash", "bank"}, bank_id : BankInputs] :
        /\ (d.account_type = "cash") = (d.bank_id = NULL)
        /\ ~d.is_paid => d.account_type = "cash"}

PairIncomeData ==
    {d \in [warehouse_id : 1..MaxWarehouses, product_id : 1..MaxPairProducts,
            qty : Qtys, price : Prices, add_money_entry : BOOLEAN,
            account_type : {"cash", "bank"}, bank_id : BankInputs] :
        /\ (d.account_type = "cash") = (d.bank_id = NULL)
        /\ ~d.add_money_entry => d.account_type = "cash"}

\* creating and deleting documents on two products, paid in cash or to a bank
NextPairs ==
    \/ \E name \in WarehouseNames : wh_add(name)
    \/ \E name \in PairProductNames : prod_add(name)
    \/ \E name \in BankNames : bank_add(name)
    \/ \E d \in PairSaleData : sale_confirm(d)
    \/ \E d \in PairIncomeData : inc_confirm(d)
    \/ \E id \in 1..MaxIncomes : cb_inc_del(id)

SpecPairs == Init /\ [][NextPairs]_vars

\* the wizard data of documents on the one product, on cash or on a bank
CatalogSaleData == {d \in PairSaleData : d.product_id \in 1..MaxProducts}
CatalogIncomeData == {d \in PairIncomeData : d.product_id \in 1..MaxProducts}

\* catalog rows are added and deleted while documents come and go
NextCatalog ==
    \/ \E name \in WarehouseNames : wh_add(name)
    \/ \E name \in ProductNames : prod_add(name)
    \/ \E name \in BankNames : bank_add(name)
    \/ \E name \in WarehouseNames : wh_del(name)
    \/ \E name \in ProductNames : prod_del(name)
    \/ \E name \in BankNames : bank_del(name)
    \/ \E d \in CatalogSaleData : sale_confirm(d)
    \/ \E d \in CatalogIncomeData : inc_confirm(d)
    \/ \E id \in 1..MaxSales : cb_sale_del(id)
    \/ \E id \in 1..MaxIncomes : cb_inc_del(id)
    \/ \E id \in 1..MaxSales : cb_sale_paid_id(id)

SpecCatalog == Init /\ [][NextCatalog]_vars

\* ---- an edit: delete a document, then enter it again ------------------
\* the wizard data that repeats the field values of an existing Sale
SaleFields(sale) ==
    [customer_name |-> sale.customer_name,
     customer_phone |-> sale.customer_phone,
     warehouse_id |-> sale.warehouse_id,
     product_id |-> sale.product_id,
     qty |-> sale.qty_kg,
     price |-> sale.price_per_kg,
     is_paid |-> sale.is_paid,
     account_type |-> sale.account_type,
     bank_id |-> sale.bank_id]

\* the wizard data that repeats the field values of an existing Income
IncomeFields(inc) ==
    [warehouse_id |-> inc.warehouse_id,
     product_id |-> inc.product_id,
     qty |-> inc.qty_kg,
     price |-> inc.price_per_kg,
     add_money_entry |-> inc.add_money_entry,
     account_type |-> inc.account_type,
     bank_id |-> inc.bank_id]

\* what show_stocks_table and show_money report, per pair and per account
StockBalances(sm) ==
    [k \in (1..MaxWarehouses) \X (1..MaxProducts) |-> StockSum(sm, k[1], k[2])]

MoneyBalances(mm) ==
    [k \in AccountTypes \X BankInputs |-> show_money(mm, k[1], k[2])]

NoEditOpen == \A t \in Tasks : tasks[t].pc = "idle"

\* cb_sale_del on an existing sale; the task keeps the sale's fields and
\* the balances shown before the delete
edit_sale_delete(t, sale_id) ==
    /\ NoEditOpen
    /\ sale_id \in Ids(sales)
    /\ sale_del_write(sale_id)
    /\ reply' = "sale_deleted"
    /\ UNCHANGED <<fsm, access>>
    /\ tasks' = [tasks EXCEPT ![t] = [pc |-> "sale_again",
                                      data |-> SaleFields(Get(sales, sale_id)),
                                      stock_before |-> StockBalances(stock_movements),
                                      money_before |-> MoneyBalances(money_movements)]]

\* sale_confirm with the fields of the deleted sale
edit_sale_create(t) ==
    /\ tasks[t].pc = "sale_again"
    /\ IF sale_check(tasks[t].data) = "ok"
       THEN /\ sale_write(tasks[t].data)
            /\ reply' = "sale_saved"
       ELSE /\ reply' = sale_refusal(tasks[t].data)
            /\ UNCHANGED tables
    /\ UNCHANGED <<fsm, access>>
    /\ tasks' = [tasks EXCEPT ![t] = IdleTask]

\* cb_inc_del on an existing income, keeping its fields and the balances
edit_inc_delete(t, income_id) ==
    /\ NoEditOpen
    /\ income_id \in Ids(incomes)
    /\ inc_del_write(income_id)
    /\ reply' = "income_deleted"
    /\ UNCHANGED <<fsm, access>>
    /\ tasks' = [tasks EXCEPT ![t] = [pc |-> "income_again",
                                      data |-> IncomeFields(Get(incomes, income_id)),
                                      stock_before |-> StockBalances(stock_movements),
                                      money_before |-> MoneyBalances(money_movements)]]

\* inc_confirm with the fields of the deleted income
edit_inc_create(t) ==
    /\ tasks[t].pc = "income_again"
    /\ IF inc_check(tasks[t].data) = "ok"
       THEN /\ inc_write(tasks[t].data)
            /\ reply' = "income_saved"
       ELSE /\ reply' = inc_check(tasks[t].data)
            /\ UNCHANGED tables
    /\ UNCHANGED <<fsm, access>>
    /\ tasks' = [tasks EXCEPT ![t] = IdleTask]

\* documents are created, deleted, marked paid, and edited by delete and
\* re-entry with nothing in between
NextEdit ==
    \/ NoEditOpen /\ \E name \in WarehouseNames : wh_add(name)
    \/ NoEditOpen /\ \E name \in ProductNames : prod_add(name)
    \/ NoEditOpen /\ \E d \in CashSaleData : sale_confirm(d)
    \/ NoEditOpen /\ \E d \in CashIncomeData : inc_confirm(d)
    \/ NoEditOpen /\ \E id \in 1..MaxIncomes : cb_inc_del(id)
    \/ NoEditOpen /\ \E id \in 1..MaxSales : cb_sale_paid_id(id)
    \/ \E t \in Tasks, id \in 1..MaxSales : edit_sale_delete(t, id)
    \/ \E t \in Tasks : edit_sale_create(t)
    \/ \E t \in Tasks, id \in 1..MaxIncomes : edit_inc_delete(t, id)
    \/ \E t \in Tasks : edit_inc_create(t)

SpecEdit == Init /\ [][NextEdit]_vars

\* ---- handlers statement by statement, inside their transaction --------
\* The tables above are what is committed, which is all that a session on
\* another connection reads.  The rows a handler has flushed and not yet
\* committed are in the tx field of its task.  SQLite lets one connection
\* write at a time, so a task starts writing only when no other one is.
WriterPcs == {"flushed", "movements_deleted", "written", "recalculated"}

NoWriter == \A t \in Tasks : tasks[t].pc \notin WriterPcs

\* the committed rows of the tables the document handlers write
Snapshot ==
    [sales |-> sales, debtors |-> debtors,
     stock_movements |-> stock_movements, money_movements |-> money_movements,
     stocks |-> stocks, money_ledger |-> money_ledger]

\* s.add(sale); await s.flush(): the first statement of the transaction
tx_sale_flush(t) ==
    /\ tasks[t].pc = "write"
    /\ NoWriter
    /\ NextId(sales) <= MaxSales
    /\ UNCHANGED <<fsm, access>>
    /\ tasks' = [tasks EXCEPT ![t] =
                    [pc |-> "flushed", data |-> tasks[t].data, answer |-> "sale_saved",
                     tx |-> [Snapshot EXCEPT
                                !.sales = sales \cup {NewSale(tasks[t].data, NextId(sales))}]]]
    /\ UNCHANGED <<tables, reply>>

\* s.add(StockMovement), then s.add(MoneyMovement) or s.add(Debtor): flushed
\* before the first statement of recalc_stocks
tx_sale_add(t) ==
    LET d == tasks[t].data
        tx == tasks[t].tx
        sale_id == Max(Ids(tx.sales))
    IN /\ tasks[t].pc = "flushed"
       /\ NextId(tx.stock_movements) <= MaxMovements
       /\ d.is_paid => NextId(tx.money_movements) <= MaxMovements
       /\ ~d.is_paid => NextId(tx.debtors) <= MaxDebtors
       /\ UNCHANGED <<fsm, access>>
       /\ tasks' = [tasks EXCEPT ![t] =
                       [pc |-> "written", data |-> d, answer |-> tasks[t].answer,
                        tx |-> [tx EXCEPT
                                   !.stock_movements = @ \cup
                                       {NewSaleStockMovement(d, NextId(@), sale_id)},
                                   !.money_movements =
                                       IF d.is_paid
                                       THEN @ \cup {NewSaleMoneyMovement(d, NextId(@), sale_id)}
                                       ELSE @,
                                   !.debtors =
                                       IF d.is_paid THEN @
                                       ELSE @ \cup {NewSaleDebtor(d, NextId(@))}]]]
       /\ UNCHANGED <<tables, reply>>

\* cb_sale_del up to s.get(Sale, sale_id)
tx_del_begin(t, sale_id) ==
    /\ tasks[t].pc = "idle"
    /\ IF sale_id \notin Ids(sales)
       THEN /\ reply' = "sale_not_found"
            /\ UNCHANGED <<tasks, fsm, access>>
       ELSE /\ UNCHANGED <<fsm, access>>
            /\ tasks' = [tasks EXCEPT ![t] = [pc |-> "delete", data |-> sale_id]]
            /\ UNCHANGED reply
    /\ UNCHANGED tables

\* delete(StockMovement), delete(MoneyMovement) where doc is the sale
tx_del_movements(t) ==
    LET sale_id == tasks[t].data
    IN /\ tasks[t].pc = "delete"
       /\ NoWriter
       /\ UNCHANGED <<fsm, access>>
       /\ tasks' = [tasks EXCEPT ![t] =
                       [pc |-> "movements_deleted", data |-> sale_id, answer |-> "sale_deleted",
                        tx |-> [Snapshot EXCEPT
                                   !.stock_movements =
                                       {m \in @ : ~(m.doc_type = "sale" /\ m.doc_id = sale_id)},
                                   !.money_movements =
                                       {m \in @ : ~(m.doc_type = "sale" /\ m.doc_id = sale_id)}]]]
       /\ UNCHANGED <<tables, reply>>

\* delete(Sale).where(Sale.id == sale_id)
tx_del_sale(t) ==
    /\ tasks[t].pc = "movements_deleted"
    /\ UNCHANGED <<fsm, access>>
    /\ tasks' = [tasks EXCEPT ![t] =
                    [pc |-> "written", data |-> tasks[t].data, answer |-> tasks[t].answer,
                     tx |-> [tasks[t].tx EXCEPT
                                !.sales = {s \in @ : s.id # tasks[t].data}]]]
    /\ UNCHANGED <<tables, reply>>

\* await recalc_stocks(s); await recalc_money_ledger(s)
tx_recalc(t) ==
    LET tx == tasks[t].tx
    IN /\ tasks[t].pc = "written"
       /\ UNCHANGED <<fsm, access>>
       /\ tasks' = [tasks EXCEPT ![t] =
                       [pc |-> "recalculated", data |-> tasks[t].data,
                        answer |-> tasks[t].answer,
                        tx |-> [tx EXCEPT
                                   !.stocks = recalc_stocks(@, tx.stock_movements),
                                   !.money_ledger = recalc_money_ledger(tx.money_movements)]]]
       /\ UNCHANGED <<tables, reply>>

tx_commit_early(t) ==
    /\ tasks[t].pc \in {"flushed", "movements_deleted"}
    /\ sales' = tasks[t].tx.sales
    /\ debtors' = tasks[t].tx.debtors
    /\ stock_movements' = tasks[t].tx.stock_movements
    /\ money_movements' = tasks[t].tx.money_movements
    /\ stocks' = tasks[t].tx.stocks
    /\ money_ledger' = tasks[t].tx.money_ledger
    /\ reply' = tasks[t].answer
    /\ UNCHANGED <<fsm, access>>
    /\ tasks' = [tasks EXCEPT ![t] = IdleTask]
    /\ UNCHANGED <<catalogs, incomes>>

\* leaving "async with s.begin()": everything the task wrote is committed
\* at once, then the handler answers
tx_commit(t) ==
    /\ tasks[t].pc = "recalculated"
    /\ sales' = tasks[t].tx.sales
    /\ debtors' = tasks[t].tx.debtors
    /\ stock_movements' = tasks[t].tx.stock_movements
    /\ money_movements' = tasks[t].tx.money_movements
    /\ stocks' = tasks[t].tx.stocks
    /\ money_ledger' = tasks[t].tx.money_ledger
    /\ reply' = tasks[t].answer
    /\ UNCHANGED <<fsm, access>>
    /\ tasks' = [tasks EXCEPT ![t] = IdleTask]
    /\ UNCHANGED <<catalogs, incomes>>

\* a reader on its own session: one SELECT over the committed movements
show_stocks_table ==
    /\ reply' = IF stock_movements = {} THEN "stocks_empty" ELSE "stocks_table"
    /\ UNCHANGED <<tables, tasks, fsm, access>>

\* sale_confirm and cb_sale_del tasks run statement by statement next to
\* a reader; catalog rows and incomes are written when no task is writing
NextTx ==
    \/ NoWriter /\ \E name \in WarehouseNames : wh_add(name)
    \/ NoWriter /\ \E name \in ProductNames : prod_add(name)
    \/ NoWriter /\ \E d \in CashIncomeData : inc_confirm(d)
    \/ \E t \in Tasks, d \in CashSaleData : sale_begin(t, d)
    \/ \E t \in Tasks : tx_sale_flush(t)
    \/ \E t \in Tasks : tx_sale_add(t)
    \/ \E t \in Tasks, id \in 1..MaxSales : tx_del_begin(t, id)
    \/ \E t \in Tasks : tx_del_movements(t)
    \/ \E t \in Tasks : tx_del_sale(t)
    \/ \E t \in Tasks : tx_recalc(t)
    \/ \E t \in Tasks : tx_commit(t)
    \/ show_stocks_table

SpecTx == Init /\ [][NextTx]_vars

\* ---- an unpaid sale and the debtor row it created ----------------------
\* sale_confirm of an unpaid sale; the task keeps the rowids that the Sale
\* and its Debtor got from the flush
sale_confirm_unpaid(t, d) ==
    /\ tasks[t].pc = "idle"
    /\ ~d.is_paid
    /\ sale_check(d) = "ok"
    /\ sale_write(d)
    /\ reply' = "sale_saved"
    /\ UNCHANGED <<fsm, access>>
    /\ tasks' = [tasks EXCEPT ![t] = [pc |-> "unpaid_sale",
                                      sale_id |-> NextId(sales),
                                      debtor_id |-> NextId(debtors)]]

\* unpaid sales, debtors entered by hand, and payments: nothing is deleted,
\* so a rowid names the same row for the whole behaviour
NextDebt ==
    \/ \E name \in WarehouseNames : wh_add(name)
    \/ \E name \in ProductNames : prod_add(name)
    \/ \E d \in CashIncomeData : inc_confirm(d)
    \/ \E d \in DebtorData : deb_confirm(d)
    \/ \E t \in Tasks, d \in CashSaleData : sale_confirm_unpaid(t, d)
    \/ \E id \in 1..MaxSales : cb_sale_paid_id(id)

SpecDebt == Init /\ [][NextDebt]_vars

\* sales, paid and unpaid, and their deletion; the task of an unpaid sale
\* keeps the rowid of the Debtor the sale created
NextSaleDel ==
    \/ \E name \in WarehouseNames : wh_add(name)
    \/ \E name \in ProductNames : prod_add(name)
    \/ \E d \in CashIncomeData : inc_confirm(d)
    \/ \E d \in CashSaleData : sale_confirm(d)
    \/ \E t \in Tasks, d \in CashSaleData : sale_confirm_unpaid(t, d)
    \/ \E id \in 1..MaxSales : cb_sale_del(id)

SpecSaleDel == Init /\ [][NextSaleDel]_vars

\* documents with whatever account_type and bank_id the wizard data hold,
\* while banks are added and deleted
NextAccounts ==
    \/ \E name \in WarehouseNames : wh_add(name)
    \/ \E name \in ProductNames : prod_add(name)
    \/ \E name \in BankNames : bank_add(name)
    \/ \E name \in BankNames : bank_del(name)
    \/ \E d \in SaleData : sale_confirm(d)
    \/ \E d \in IncomeData : inc_confirm(d)

SpecAccounts == Init /\ [][NextAccounts]_vars

\* ---- get-or-create of a catalog row as a task of the dispatcher --------
\* wh_add, sale_add_warehouse_inline and inc_add_warehouse_inline run the
\* same two statements, and so do their Product and Bank counterparts: a
\* SELECT by name, then s.add and the commit.  Other tasks run between the
\* two.  name is UNIQUE in the three tables, so the INSERT of a name that
\* is in the table raises IntegrityError and the session rolls back.

\* select(Warehouse).where(Warehouse.name == name)
wh_add_select(t, name) ==
    /\ tasks[t].pc = "idle"
    /\ IF \E w \in warehouses : w.name = name
       THEN /\ reply' = "warehouse_exists"
            /\ UNCHANGED <<tasks, fsm, access>>
       ELSE /\ UNCHANGED <<fsm, access>>
            /\ tasks' = [tasks EXCEPT ![t] = [pc |-> "insert_warehouse", name |-> name]]
            /\ UNCHANGED reply
    /\ UNCHANGED tables

wh_add_commit_no_index(t) ==
    /\ tasks[t].pc = "insert_warehouse"
    /\ warehouses' = warehouses \cup
                       {[id |-> NextId(warehouses), name |-> tasks[t].name]}
    /\ reply' = "warehouse_added"
    /\ UNCHANGED <<fsm, access>>
    /\ tasks' = [tasks EXCEPT ![t] = IdleTask]
    /\ UNCHANGED <<products, banks, documents, movements, balances>>

\* s.add(Warehouse(name=name)); await s.commit()
wh_add_commit(t) ==
    /\ tasks[t].pc = "insert_warehouse"
    /\ IF \E w \in warehouses : w.name = tasks[t].name
       THEN /\ reply' = "integrity_error"
            /\ UNCHANGED warehouses
       ELSE /\ warehouses' = warehouses \cup
                               {[id |-> NextId(warehouses), name |-> tasks[t].name]}
            /\ reply' = "warehouse_added"
    /\ UNCHANGED <<fsm, access>>
    /\ tasks' = [tasks EXCEPT ![t] = IdleTask]
    /\ UNCHANGED <<products, banks, documents, movements, balances>>

\* select(Product).where(Product.name == name)
prod_add_select(t, name) ==
    /\ tasks[t].pc = "idle"
    /\ IF \E p \in products : p.name = name
       THEN /\ reply' = "product_exists"
            /\ UNCHANGED <<tasks, fsm, access>>
       ELSE /\ UNCHANGED <<fsm, access>>
            /\ tasks' = [tasks EXCEPT ![t] = [pc |-> "insert_product", name |-> name]]
            /\ UNCHANGED reply
    /\ UNCHANGED tables

\* s.add(Product(name=name)); await s.commit()
prod_add_commit(t) ==
    /\ tasks[t].pc = "insert_product"
    /\ IF \E p \in products : p.name = tasks[t].name
       THEN /\ reply' = "integrity_error"
            /\ UNCHANGED products
       ELSE /\ products' = products \cup
                             {[id |-> NextId(products), name |-> tasks[t].name]}
            /\ reply' = "product_added"
    /\ UNCHANGED <<fsm, access>>
    /\ tasks' = [tasks EXCEPT ![t] = IdleTask]
    /\ UNCHANGED <<warehouses, banks, documents, movements, balances>>

\* select(Bank).where(Bank.name == name)
bank_add_select(t, name) ==
    /\ tasks[t].pc = "idle"
    /\ IF \E b \in banks : b.name = name
       THEN /\ reply' = "bank_exists"
            /\ UNCHANGED <<tasks, fsm, access>>
       ELSE /\ UNCHANGED <<fsm, access>>
            /\ tasks' = [tasks EXCEPT ![t] = [pc |-> "insert_bank", name |-> name]]
            /\ UNCHANGED reply
    /\ UNCHANGED tables

\* s.add(Bank(name=name)); await s.commit()
bank_add_commit(t) ==
    /\ tasks[t].pc = "insert_bank"
    /\ IF \E b \in banks : b.name = tasks[t].name
       THEN /\ reply' = "integrity_error"
            /\ UNCHANGED banks
       ELSE /\ banks' = banks \cup {[id |-> NextId(banks), name |-> tasks[t].name]}
            /\ reply' = "bank_added"
    /\ UNCHANGED <<fsm, access>>
    /\ tasks' = [tasks EXCEPT ![t] = IdleTask]
    /\ UNCHANGED <<warehouses, products, documents, movements, balances>>

\* get-or-create tasks interleave with each other and with the deletes
NextRace ==
    \/ \E t \in Tasks, name \in WarehouseNames : wh_add_select(t, name)
    \/ \E t \in Tasks : wh_add_commit(t)
    \/ \E t \in Tasks, name \in ProductNames : prod_add_select(t, name)
    \/ \E t \in Tasks : prod_add_commit(t)
    \/ \E t \in Tasks, name \in BankNames : bank_add_select(t, name)
    \/ \E t \in Tasks : bank_add_commit(t)
    \/ \E name \in WarehouseNames : wh_del(name)
    \/ \E name \in ProductNames : prod_del(name)
    \/ \E name \in BankNames : bank_del(name)

SpecRace == Init /\ [][NextRace]_vars

\* ---- the wizards: messages and callbacks of one conversation ------------
\* str(Decimal) of a whole number
DecimalStr(n) == IF n < 0 THEN "-" \o NatStr(-n) ELSE NatStr(n)

\* the numbers a message text of the model can spell
Decimals == (-1)..MaxQty

\* Decimal(s) succeeds
IsDecimal(s) == \E n \in Decimals : DecimalStr(n) = s

\* dec(s): the number the text spells
dec(s) == CHOOSE n \in Decimals : DecimalStr(n) = s

\* the labels of the reply keyboard that menu_router acts on
MenuTexts == {"main_sale", "rep_deb_add", "cancel"}
NumberTexts == {DecimalStr(n) : n \in Decimals}
\* message.text of the messages of the model
Messages == {NoText} \cup NumberTexts \cup MenuTexts

\* (s or "").strip()
safe_text(s) == IF s = NoText THEN "" ELSE s

SALE_FLOW ==
    <<"doc_date", "customer_name", "customer_phone", "warehouse_id", "product_id",
      "qty", "price", "delivery", "paid_status", "pay_method", "account_type",
      "bank_pick", "confirm">>

\* SALE_FLOW.index(key), counted from 1
FlowIndex(key) == CHOOSE i \in 1..Len(SALE_FLOW) : SALE_FLOW[i] = key

\* step_map.get(sale_state_name(cur), "customer_name")
StepKey(state) ==
    CASE state.step = "warehouse" -> "warehouse_id"
      [] state.step = "product" -> "product_id"
      [] state.step \in {"doc_date", "customer_name", "customer_phone", "qty",
                         "price", "delivery", "paid_status", "pay_method",
                         "account_type", "bank_pick", "confirm"} -> state.step
      [] OTHER -> "customer_name"

\* the context after sale_go_to(state, key)
sale_go_to(ctx, key) ==
    [ctx EXCEPT !.state =
        SaleWizard(CASE key = "warehouse_id" -> "warehouse"
                     [] key = "product_id" -> "product"
                     [] OTHER -> key)]

\* the context after state.update_data(key=val)
update_data(ctx, key, val) == [ctx EXCEPT !.data[key] = val]

\* what a prompt answers: the summary of the confirm step indexes data["qty"]
\* and data["price"] and raises without them, after the state was set
prompt(ctx) ==
    IF ctx.state.step = "confirm"
       /\ (ctx.data.qty = Missing \/ ctx.data.price = Missing)
    THEN "error"
    ELSE "prompt"

\* ---- who may use the bot -------------------------------------------------
is_owner(user_id) == user_id = OWNER_ID

\* the owner, or a user with a row in allowed_users
is_allowed(user_id) == is_owner(user_id) \/ user_id \in allowed_users

\* the branches of menu_router that open a wizard or cancel; any other text
\* only stores cur_menu
menu_router(text) ==
    /\ text # NoText
    /\ IF ~is_allowed(from_user)
       THEN /\ reply' = "no_access"
            /\ UNCHANGED fsm
       ELSE IF text = "main_sale"
       THEN /\ fsm' = [state |-> SaleWizard("doc_date"), data |-> NoData]
            /\ reply' = "prompt"
       ELSE IF text = "rep_deb_add"
       THEN /\ fsm' = [state |-> DebtorWizard("doc_date"), data |-> NoData]
            /\ reply' = "prompt"
       ELSE IF text = "cancel"
       THEN /\ fsm' = NoContext
            /\ reply' = "cancelled"
       ELSE UNCHANGED <<fsm, reply>>
    /\ UNCHANGED <<tables, tasks, access>>

\* cal:sale:pick:<date>
cal_sale_handler ==
    /\ fsm' = sale_go_to(update_data(fsm, "doc_date", "date"), "customer_name")
    /\ reply' = prompt(fsm')
    /\ UNCHANGED <<tables, tasks, access>>

\* sale_nav:<field>:back and sale_nav:<field>:skip; the field is not read
sale_nav_handler(action) ==
    LET idx == FlowIndex(StepKey(fsm.state))
    IN /\ IF action = "back"
          THEN IF idx = 1
               THEN /\ fsm' = NoContext
                    /\ reply' = "cancelled"
               ELSE /\ fsm' = sale_go_to(fsm, SALE_FLOW[idx - 1])
                    /\ reply' = prompt(fsm')
          ELSE /\ fsm' = sale_go_to(fsm, SALE_FLOW[IF idx < Len(SALE_FLOW) THEN idx + 1 ELSE idx])
               /\ reply' = prompt(fsm')
       /\ UNCHANGED <<tables, tasks, access>>

sale_customer_name(text) ==
    /\ fsm.state = SaleWizard("customer_name")
    /\ fsm' = sale_go_to(fsm, "customer_phone")
    /\ reply' = prompt(fsm')
    /\ UNCHANGED <<tables, tasks, access>>

sale_customer_phone(text) ==
    /\ fsm.state = SaleWizard("customer_phone")
    /\ fsm' = sale_go_to(fsm, "warehouse_id")
    /\ reply' = prompt(fsm')
    /\ UNCHANGED <<tables, tasks, access>>

\* sale_wh:back and sale_wh:id:<id>
sale_choose_wh(action, id) ==
    /\ IF action = "back"
       THEN fsm' = sale_go_to(fsm, "customer_phone")
       ELSE fsm' = sale_go_to(update_data(fsm, "warehouse_id", id), "product_id")
    /\ reply' = prompt(fsm')
    /\ UNCHANGED <<tables, tasks, access>>

\* sale_pr:back and sale_pr:id:<id>
sale_choose_pr(action, id) ==
    /\ IF action = "back"
       THEN fsm' = sale_go_to(fsm, "warehouse_id")
       ELSE fsm' = sale_go_to(update_data(fsm, "product_id", id), "qty")
    /\ reply' = prompt(fsm')
    /\ UNCHANGED <<tables, tasks, access>>

sale_qty(text) ==
    /\ fsm.state = SaleWizard("qty")
    /\ IF IsDecimal(safe_text(text)) /\ dec(safe_text(text)) > 0
       THEN /\ fsm' = sale_go_to(update_data(fsm, "qty", DecimalStr(dec(safe_text(text)))), "price")
            /\ reply' = prompt(fsm')
       ELSE /\ reply' = "number_error"
            /\ UNCHANGED fsm
    /\ UNCHANGED <<tables, tasks, access>>

sale_price(text) ==
    /\ fsm.state = SaleWizard("price")
    /\ IF IsDecimal(safe_text(text)) /\ dec(safe_text(text)) >= 0
       THEN /\ fsm' = sale_go_to(update_data(fsm, "price", DecimalStr(dec(safe_text(text)))), "delivery")
            /\ reply' = prompt(fsm')
       ELSE /\ reply' = "number_error"
            /\ UNCHANGED fsm
    /\ UNCHANGED <<tables, tasks, access>>

\* an empty text counts as "0"
sale_delivery(text) ==
    LET txt == IF safe_text(text) = "" THEN "0" ELSE safe_text(text)
    IN /\ fsm.state = SaleWizard("delivery")
       /\ IF IsDecimal(txt) /\ dec(txt) >= 0
          THEN /\ fsm' = sale_go_to(fsm, "paid_status")
               /\ reply' = prompt(fsm')
          ELSE /\ reply' = "number_error"
               /\ UNCHANGED fsm
       /\ UNCHANGED <<tables, tasks, access>>

\* sale_status:paid and sale_status:unpaid
sale_status_chosen(status) ==
    /\ IF status = "paid"
       THEN fsm' = sale_go_to(update_data(fsm, "is_paid", TRUE), "pay_method")
       ELSE fsm' = sale_go_to(update_data(fsm, "is_paid", FALSE), "confirm")
    /\ reply' = prompt(fsm')
    /\ UNCHANGED <<tables, tasks, access>>

\* sale_pay:cash
sale_pay_method ==
    /\ fsm' = sale_go_to(fsm, "account_type")
    /\ reply' = prompt(fsm')
    /\ UNCHANGED <<tables, tasks, access>>

\* sale_acc:cash
sale_account_type_pick ==
    /\ fsm' = sale_go_to(fsm, "confirm")
    /\ reply' = prompt(fsm')
    /\ UNCHANGED <<tables, tasks, access>>

\* sale_confirm indexes these keys: a KeyError without them
SaleDataComplete(data) ==
    /\ data.doc_date # Missing
    /\ data.warehouse_id # NULL
    /\ data.product_id # NULL
    /\ data.qty # Missing
    /\ data.price # Missing

\* what sale_confirm reads from the wizard data of a cash sale
WizardSaleData(data) ==
    [customer_name |-> CHOOSE c \in CustomerNames : TRUE,
     customer_phone |-> CHOOSE p \in CustomerPhones : TRUE,
     warehouse_id |-> data.warehouse_id,
     product_id |-> data.product_id,
     qty |-> dec(data.qty),
     price |-> dec(data.price),
     is_paid |-> data.is_paid,
     account_type |-> "cash",
     bank_id |-> NULL]

\* sale_confirm:yes and sale_confirm:no, run without interruption
sale_confirm_callback(ch) ==
    /\ Cardinality(sales) < MaxWizardSales
    /\ IF ch = "no"
       THEN /\ fsm' = NoContext
            /\ reply' = "cancelled"
            /\ UNCHANGED tables
       ELSE IF ~SaleDataComplete(fsm.data)
       THEN /\ reply' = "error"
            /\ UNCHANGED <<tables, fsm>>
       ELSE LET d == WizardSaleData(fsm.data)
            IN IF sale_check(d) = "ok"
               THEN /\ sale_write(d)
                    /\ fsm' = NoContext
                    /\ reply' = "sale_saved"
               ELSE IF sale_check(d) = "sale_insufficient"
               THEN /\ fsm' = NoContext
                    /\ reply' = sale_refusal(d)
                    /\ UNCHANGED tables
               ELSE /\ reply' = sale_refusal(d)
                    /\ UNCHANGED <<tables, fsm>>
    /\ UNCHANGED <<tasks, access>>

\* cal:deb:pick:<date>
cal_deb_handler ==
    /\ fsm' = [update_data(fsm, "doc_date", "date") EXCEPT !.state = DebtorWizard("customer_name")]
    /\ reply' = "prompt"
    /\ UNCHANGED <<tables, tasks, access>>

\* deb_nav:<field>:back and deb_nav:<field>:skip; the field is not read
deb_nav_handler(action) ==
    LET step == fsm.state.step
        back == CASE step = "customer_name" -> "doc_date"
                  [] step = "customer_phone" -> "customer_name"
                  [] step = "warehouse_name" -> "customer_phone"
                  [] step = "product_name" -> "warehouse_name"
                  [] step = "qty" -> "product_name"
                  [] step = "price" -> "qty"
                  [] step = "delivery" -> "price"
                  [] step = "confirm" -> "delivery"
                  [] OTHER -> "None"
    IN /\ IF action = "back"
          THEN IF back = "None"
               THEN /\ fsm' = NoContext
                    /\ reply' = "cancelled"
               ELSE /\ fsm' = [fsm EXCEPT !.state = DebtorWizard(back)]
                    /\ reply' = "prompt"
          ELSE IF step = "customer_phone"
          THEN /\ fsm' = [fsm EXCEPT !.state = DebtorWizard("warehouse_name")]
               /\ reply' = "prompt"
          ELSE IF step = "delivery"
          THEN /\ fsm' = [fsm EXCEPT !.state = DebtorWizard("confirm")]
               /\ reply' = prompt(fsm')
          ELSE UNCHANGED <<fsm, reply>>
       /\ UNCHANGED <<tables, tasks, access>>

deb_name(text) ==
    /\ fsm.state = DebtorWizard("customer_name")
    /\ fsm' = [fsm EXCEPT !.state = DebtorWizard("customer_phone")]
    /\ reply' = "prompt"
    /\ UNCHANGED <<tables, tasks, access>>

deb_phone(text) ==
    /\ fsm.state = DebtorWizard("customer_phone")
    /\ fsm' = [fsm EXCEPT !.state = DebtorWizard("warehouse_name")]
    /\ reply' = "prompt"
    /\ UNCHANGED <<tables, tasks, access>>

deb_wh(text) ==
    /\ fsm.state = DebtorWizard("warehouse_name")
    /\ fsm' = [fsm EXCEPT !.state = DebtorWizard("product_name")]
    /\ reply' = "prompt"
    /\ UNCHANGED <<tables, tasks, access>>

deb_pr(text) ==
    /\ fsm.state = DebtorWizard("product_name")
    /\ fsm' = [fsm EXCEPT !.state = DebtorWizard("qty")]
    /\ reply' = "prompt"
    /\ UNCHANGED <<tables, tasks, access>>

\* "if q < 0": a quantity of 0 is stored
deb_qty(text) ==
    /\ fsm.state = DebtorWizard("qty")
    /\ IF IsDecimal(safe_text(text)) /\ dec(safe_text(text)) >= 0
       THEN /\ fsm' = [update_data(fsm, "qty", DecimalStr(dec(safe_text(text))))
                         EXCEPT !.state = DebtorWizard("price")]
            /\ reply' = "prompt"
       ELSE /\ reply' = "number_error"
            /\ UNCHANGED fsm
    /\ UNCHANGED <<tables, tasks, access>>

deb_price(text) ==
    /\ fsm.state = DebtorWizard("price")
    /\ IF IsDecimal(safe_text(text)) /\ dec(safe_text(text)) >= 0
       THEN /\ fsm' = [update_data(fsm, "price", DecimalStr(dec(safe_text(text))))
                         EXCEPT !.state = DebtorWizard("delivery")]
            /\ reply' = "prompt"
       ELSE /\ reply' = "number_error"
            /\ UNCHANGED fsm
    /\ UNCHANGED <<tables, tasks, access>>

deb_delivery(text) ==
    LET txt == IF safe_text(text) = "" THEN "0" ELSE safe_text(text)
    IN /\ fsm.state = DebtorWizard("delivery")
       /\ IF IsDecimal(txt) /\ dec(txt) >= 0
          THEN /\ fsm' = [fsm EXCEPT !.state = DebtorWizard("confirm")]
               /\ reply' = prompt(fsm')
          ELSE /\ reply' = "number_error"
               /\ UNCHANGED fsm
       /\ UNCHANGED <<tables, tasks, access>>

\* the stock the wizard's sales draw on: one cash income without money entry
WizardIncomeData ==
    {d \in CashIncomeData : d.qty = MaxQty /\ ~d.add_money_entry}

\* the texts that are not button labels of menu_router
PlainTexts == {NoText} \cup NumberTexts
PriceTexts == {NoText} \cup {DecimalStr(n) : n \in {-1} \cup Prices}

\* every handler takes the updates that pass its own filter: a message
\* handler a message in its state, a callback handler a callback with its
\* prefix. The order in which the router tries the handlers is the subject
\* of NextDispatch, not of this specification.
NextWizard ==
    \/ \E name \in WarehouseNames : wh_add(name)
    \/ \E name \in ProductNames : prod_add(name)
    \/ \E d \in WizardIncomeData : inc_confirm(d)
    \/ \E text \in MenuTexts : menu_router(text)
    \/ cal_sale_handler
    \/ \E action \in {"back", "skip"} : sale_nav_handler(action)
    \/ \E text \in {NoText} : sale_customer_name(text)
    \/ \E text \in {NoText} : sale_customer_phone(text)
    \/ \E action \in {"back", "id"}, id \in 1..MaxWarehouses : sale_choose_wh(action, id)
    \/ \E action \in {"back", "id"}, id \in 1..MaxProducts : sale_choose_pr(action, id)
    \/ \E text \in PlainTexts : sale_qty(text)
    \/ \E text \in PriceTexts : sale_price(text)
    \/ \E text \in PlainTexts : sale_delivery(text)
    \/ \E status \in {"paid", "unpaid"} : sale_status_chosen(status)
    \/ sale_pay_method
    \/ sale_account_type_pick
    \/ \E ch \in {"yes", "no"} : sale_confirm_callback(ch)
    \/ cal_deb_handler
    \/ \E action \in {"back", "skip"} : deb_nav_handler(action)
    \/ \E text \in {NoText} : deb_name(text)
    \/ \E text \in {NoText} : deb_phone(text)
    \/ \E text \in {NoText} : deb_wh(text)
    \/ \E text \in {NoText} : deb_pr(text)
    \/ \E text \in PlainTexts : deb_qty(text)
    \/ \E text \in PriceTexts : deb_price(text)
    \/ \E text \in PlainTexts : deb_delivery(text)

SpecWizard == Init /\ [][NextWizard]_vars

\* ---- the router: which message handler takes a message -----------------
\* the message handlers of the model in the order of their registration:
\* the router tries them in this order and the first whose filter passes
\* handles the message
MessageHandlers ==
    <<"menu_router", "sale_customer_name", "sale_customer_phone", "sale_qty",
      "sale_price", "sale_delivery", "deb_name", "deb_phone", "deb_wh",
      "deb_pr", "deb_qty", "deb_price", "deb_delivery">>

\* the filter of the decorator: F.text for menu_router, a state for the rest
Passes(h, state, text) ==
    CASE h = "menu_router" -> text # NoText
      [] h = "sale_customer_name" -> state = SaleWizard("customer_name")
      [] h = "sale_customer_phone" -> state = SaleWizard("customer_phone")
      [] h = "sale_qty" -> state = SaleWizard("qty")
      [] h = "sale_price" -> state = SaleWizard("price")
      [] h = "sale_delivery" -> state = SaleWizard("delivery")
      [] h = "deb_name" -> state = DebtorWizard("customer_name")
      [] h = "deb_phone" -> state = DebtorWizard("customer_phone")
      [] h = "deb_wh" -> state = DebtorWizard("warehouse_name")
      [] h = "deb_pr" -> state = DebtorWizard("product_name")
      [] h = "deb_qty" -> state = DebtorWizard("qty")
      [] h = "deb_price" -> state = DebtorWizard("price")
      [] h = "deb_delivery" -> state = DebtorWizard("delivery")

\* the handler that takes a message with this text in this state
Route(state, text) ==
    LET hits == {i \in 1..Len(MessageHandlers) : Passes(MessageHandlers[i], state, text)}
    IN IF hits = {} THEN "unhandled"
       ELSE MessageHandlers[CHOOSE i \in hits : \A j \in hits : i <= j]

\* one message of the conversation goes through the router
feed_message(text) ==
    LET h == Route(fsm.state, text)
    IN \/ h = "menu_router" /\ menu_router(text)
       \/ h = "sale_customer_name" /\ sale_customer_name(text)
       \/ h = "sale_customer_phone" /\ sale_customer_phone(text)
       \/ h = "sale_qty" /\ sale_qty(text)
       \/ h = "sale_price" /\ sale_price(text)
       \/ h = "sale_delivery" /\ sale_delivery(text)
       \/ h = "deb_name" /\ deb_name(text)
       \/ h = "deb_phone" /\ deb_phone(text)
       \/ h = "deb_wh" /\ deb_wh(text)
       \/ h = "deb_pr" /\ deb_pr(text)
       \/ h = "deb_qty" /\ deb_qty(text)
       \/ h = "deb_price" /\ deb_price(text)
       \/ h = "deb_delivery" /\ deb_delivery(text)
       \/ h = "unhandled" /\ UNCHANGED vars

\* one conversation: its messages go through the router, its callbacks to
\* the handler of their prefix
NextDispatch ==
    \/ \E text \in Messages : feed_message(text)
    \/ cal_sale_handler
    \/ \E action \in {"back", "skip"} : sale_nav_handler(action)
    \/ \E action \in {"back", "id"}, id \in 1..MaxWarehouses : sale_choose_wh(action, id)
    \/ \E action \in {"back", "id"}, id \in 1..MaxProducts : sale_choose_pr(action, id)
    \/ \E status \in {"paid", "unpaid"} : sale_status_chosen(status)
    \/ sale_pay_method
    \/ sale_account_type_pick
    \/ \E ch \in {"yes", "no"} : sale_confirm_callback(ch)
    \/ cal_deb_handler
    \/ \E action \in {"back", "skip"} : deb_nav_handler(action)

SpecDispatch == Init /\ [][NextDispatch]_vars

\* ---- sale_confirm:yes as a task that reads the wizard data --------------
\* up to the first await on the database: the callback data and the wizard
\* data are read, nothing is written
sale_confirm_get_data(t) ==
    /\ tasks[t].pc = "idle"
    /\ IF SaleDataComplete(fsm.data)
       THEN /\ tasks' = [tasks EXCEPT ![t] =
                            [pc |-> "confirm", data |-> WizardSaleData(fsm.data)]]
            /\ UNCHANGED reply
       ELSE /\ reply' = "error"
            /\ UNCHANGED tasks
    /\ UNCHANGED <<tables, fsm, access>>

\* "async with s.begin()": the checks, the inserts and the commit; a refusal
\* for lack of stock clears the state before it returns
sale_confirm_transaction(t) ==
    LET d == tasks[t].data
    IN /\ tasks[t].pc = "confirm"
       /\ IF sale_check(d) = "ok"
          THEN /\ sale_write(d)
               /\ tasks' = [tasks EXCEPT ![t] = [pc |-> "clear"]]
               /\ UNCHANGED <<reply, fsm>>
          ELSE /\ reply' = sale_refusal(d)
               /\ fsm' = IF sale_check(d) = "sale_insufficient" THEN NoContext ELSE fsm
               /\ tasks' = [tasks EXCEPT ![t] = IdleTask]
               /\ UNCHANGED tables
       /\ UNCHANGED access

\* after the commit: state.clear() and the answer
sale_confirm_clear(t) ==
    /\ tasks[t].pc = "clear"
    /\ fsm' = NoContext
    /\ reply' = "sale_saved"
    /\ tasks' = [tasks EXCEPT ![t] = IdleTask]
    /\ UNCHANGED <<tables, access>>

\* the conversation enters wizard data while no sale_confirm task is running
\* and no Sale is committed yet: every Sale of a behaviour comes from the
\* wizard run whose data the first committing task read
OneRun == sales = {} /\ \A t \in Tasks : tasks[t].pc = "idle"

NextTwice ==
    \/ \E name \in WarehouseNames : wh_add(name)
    \/ \E name \in ProductNames : prod_add(name)
    \/ \E d \in WizardIncomeData : inc_confirm(d)
    \/ OneRun /\ cal_sale_handler
    \/ OneRun /\ \E text \in {NoText} : sale_customer_name(text)
    \/ OneRun /\ \E text \in {NoText} : sale_customer_phone(text)
    \/ OneRun /\ \E id \in 1..MaxWarehouses : sale_choose_wh("id", id)
    \/ OneRun /\ \E id \in 1..MaxProducts : sale_choose_pr("id", id)
    \/ OneRun /\ \E text \in PlainTexts : sale_qty(text)
    \/ OneRun /\ \E text \in PriceTexts : sale_price(text)
    \/ OneRun /\ \E text \in PlainTexts : sale_delivery(text)
    \/ OneRun /\ \E status \in {"paid", "unpaid"} : sale_status_chosen(status)
    \/ OneRun /\ sale_pay_method
    \/ OneRun /\ sale_account_type_pick
    \/ \E t \in Tasks : sale_confirm_get_data(t)
    \/ \E t \in Tasks : sale_confirm_transaction(t)
    \/ \E t \in Tasks : sale_confirm_clear(t)

SpecTwice == Init /\ [][NextTwice]_vars

\* ---- the startup sequence of main() --------------------------------------
\* the place of a row among the rows of its table, in rowid order
Rank(rows, r) == Cardinality({x \in rows : x.id <= r.id})

MigrationNeeded_no_money(sm, mm) == mm = {}

\* "if sm_cnt == 0 and mm_cnt == 0"
MigrationNeeded(sm, mm) == sm = {} /\ mm = {}

\* the StockMovement rows the migration adds: one per Sale, then one per
\* Income, with the rowids the flush gives them
MigratedStockMovements(sm, ss, is) ==
    {[id |-> NextId(sm) - 1 + Rank(ss, s),
      warehouse_id |-> s.warehouse_id,
      product_id |-> s.product_id,
      qty_kg |-> -s.qty_kg,
      doc_type |-> "sale",
      doc_id |-> s.id] : s \in ss}
    \cup
    {[id |-> NextId(sm) - 1 + Cardinality(ss) + Rank(is, i),
      warehouse_id |-> i.warehouse_id,
      product_id |-> i.product_id,
      qty_kg |-> i.qty_kg,
      doc_type |-> "income",
      doc_id |-> i.id] : i \in is}

\* the MoneyMovement rows the migration adds: one per paid Sale, then one per
\* Income with add_money_entry; "account_type or cash", and a bank_id only on
\* bank and ip
MigratedMoneyMovements(mm, ss, is) ==
    LET paid == {s \in ss : s.is_paid}
        spent == {i \in is : i.add_money_entry}
    IN {[id |-> NextId(mm) - 1 + Rank(paid, s),
         account_type |-> IF s.account_type = "" THEN "cash" ELSE s.account_type,
         bank_id |-> IF s.account_type \in {"bank", "ip"} THEN s.bank_id ELSE NULL,
         amount |-> s.total_amount,
         doc_type |-> "sale",
         doc_id |-> s.id] : s \in paid}
       \cup
       {[id |-> NextId(mm) - 1 + Cardinality(paid) + Rank(spent, i),
         account_type |-> IF i.account_type = "" THEN "cash" ELSE i.account_type,
         bank_id |-> IF i.account_type \in {"bank", "ip"} THEN i.bank_id ELSE NULL,
         amount |-> -i.total_amount,
         doc_type |-> "income",
         doc_id |-> i.id] : i \in spent}

\* the two movement tables after the startup sequence
StartupMovements(sm, mm, ss, is) ==
    IF MigrationNeeded(sm, mm)
    THEN <<sm \cup MigratedStockMovements(sm, ss, is),
           mm \cup MigratedMoneyMovements(mm, ss, is)>>
    ELSE <<sm, mm>>

\* main() up to start_polling: the migration with its two recomputes, the
\* owner's AllowedUser row, a new MemoryStorage and no handler task
main ==
    LET after == StartupMovements(stock_movements, money_movements, sales, incomes)
    IN /\ stock_movements' = after[1]
       /\ money_movements' = after[2]
       /\ IF MigrationNeeded(stock_movements, money_movements)
          THEN /\ stocks' = recalc_stocks(stocks, after[1])
               /\ money_ledger' = recalc_money_ledger(after[2])
          ELSE UNCHANGED balances
       /\ allowed_users' = allowed_users \cup {OWNER_ID}
       /\ fsm' = NoContext
       /\ tasks' = [t \in Tasks |-> IdleTask]
       /\ reply' = "bot_started"
       /\ UNCHANGED <<catalogs, documents, from_user, access_requests>>

\* how a database written before the movement tables existed records the
\* account of a document: no account_type, cash, cash with a bank left over,
\* or a bank
LegacyAccounts ==
    {[account_type |-> "", bank_id |-> NULL],
     [account_type |-> "cash", bank_id |-> NULL],
     [account_type |-> "cash", bank_id |-> 1],
     [account_type |-> "bank", bank_id |-> 1]}

\* what such a database holds under one rowid: no row, or a document
LegacyDoc == [present : BOOLEAN, qty : Qtys, money : BOOLEAN, account : LegacyAccounts]

LegacySales(f) ==
    {[id |-> i,
      customer_name |-> CHOOSE c \in CustomerNames : TRUE,
      customer_phone |-> CHOOSE p \in CustomerPhones : TRUE,
      warehouse_id |-> 1,
      product_id |-> 1,
      qty_kg |-> f[i].qty,
      price_per_kg |-> MaxPrice,
      total_amount |-> f[i].qty * MaxPrice,
      is_paid |-> f[i].money,
      account_type |-> f[i].account.account_type,
      bank_id |-> f[i].account.bank_id] : i \in {j \in DOMAIN f : f[j].present}}

LegacyIncomes(g) ==
    {[id |-> i,
      warehouse_id |-> 1,
      product_id |-> 1,
      qty_kg |-> g[i].qty,
      price_per_kg |-> MaxPrice,
      total_amount |-> g[i].qty * MaxPrice,
      add_money_entry |-> g[i].money,
      account_type |-> g[i].account.account_type,
      bank_id |-> g[i].account.bank_id] : i \in {j \in DOMAIN g : g[j].present}}

\* the database main() finds when the program starts on the data of its
\* earlier version: catalogs and documents, no movement, no balance row
InitLegacy ==
    /\ warehouses = {[id |-> 1, name |-> 1]}
    /\ products = {[id |-> 1, name |-> 1]}
    /\ banks = {[id |-> 1, name |-> 1]}
    /\ \E f \in [1..MaxSales -> LegacyDoc], g \in [1..MaxIncomes -> LegacyDoc] :
          /\ sales = LegacySales(f)
          /\ incomes = LegacyIncomes(g)
    /\ debtors = {}
    /\ stock_movements = {}
    /\ money_movements = {}
    /\ stocks = {}
    /\ money_ledger = <<>>
    /\ reply = "none"
    /\ tasks = [t \in Tasks |-> IdleTask]
    /\ fsm = NoContext
    /\ allowed_users = {}
    /\ from_user = OWNER_ID
    /\ access_requests = [u \in Users |-> 0]

\* the program is started, documents are deleted, the program is started again
NextStart ==
    \/ main
    \/ \E id \in 1..MaxSales : cb_sale_del(id)
    \/ \E id \in 1..MaxIncomes : cb_inc_del(id)

SpecStart == InitLegacy /\ [][NextStart]_vars

\* ---- access: requests, the owner's answers, and what a stranger can do ----
\* the dispatcher takes the next update; it was sent by user_id
feed_update(user_id) ==
    /\ from_user' = user_id
    /\ UNCHANGED <<tables, reply, tasks, fsm, allowed_users, access_requests>>

\* /start: the menu for an allowed user (whose name is on file), an access
\* request with the buttons acc_req:allow and acc_req:deny to the owner
\* otherwise
cmd_start ==
    /\ fsm' = NoContext
    /\ IF is_allowed(from_user)
       THEN /\ reply' = "menu"
            /\ UNCHANGED access_requests
       ELSE /\ access_requests[from_user] < MaxRequests
            /\ access_requests' =
                 [access_requests EXCEPT ![from_user] = access_requests[from_user] + 1]
            /\ reply' = "access_requested"
    /\ UNCHANGED <<tables, tasks, allowed_users, from_user>>

\* select, then insert if there is no row
allow_user(user_id) == allowed_users' = allowed_users \cup {user_id}

\* delete(AllowedUser).where(AllowedUser.user_id == user_id)
deny_user(user_id) == allowed_users' = allowed_users \ {user_id}

\* a button of an access request is pressed; the edit of the message takes
\* its buttons away
cb_access_req(action, user_id) ==
    /\ access_requests[user_id] > 0
    /\ IF ~is_owner(from_user)
       THEN /\ reply' = "no_access"
            /\ UNCHANGED <<allowed_users, access_requests>>
       ELSE /\ access_requests' =
                 [access_requests EXCEPT ![user_id] = access_requests[user_id] - 1]
            /\ IF action = "allow"
               THEN /\ allow_user(user_id)
                    /\ reply' = "access_allowed"
               ELSE /\ reply' = "access_denied"
                    /\ UNCHANGED allowed_users
    /\ UNCHANGED <<tables, tasks, fsm, from_user>>

\* /allow <id>
cmd_allow(user_id) ==
    /\ IF ~is_owner(from_user)
       THEN /\ reply' = "no_access"
            /\ UNCHANGED allowed_users
       ELSE /\ allow_user(user_id)
            /\ reply' = "access_allowed"
    /\ UNCHANGED <<tables, tasks, fsm, from_user, access_requests>>

\* /deny <id>
cmd_deny(user_id) ==
    /\ IF ~is_owner(from_user)
       THEN /\ reply' = "no_access"
            /\ UNCHANGED allowed_users
       ELSE IF is_owner(user_id)
       THEN /\ reply' = "owner_cannot_be_denied"
            /\ UNCHANGED allowed_users
       ELSE /\ deny_user(user_id)
            /\ reply' = "access_denied"
    /\ UNCHANGED <<tables, tasks, fsm, from_user, access_requests>>

\* the text "sale #<id>": the card of the sale with its action buttons
sale_by_id(sale_id) ==
    /\ reply' = IF sale_id \in Ids(sales) THEN "sale_card" ELSE "sale_not_found"
    /\ UNCHANGED <<tables, tasks, fsm, access>>

\* the owner keeps the books; every user sends /start, menu texts, the text
\* "sale #<id>" and the callbacks of the buttons under a sale card
NextAccess ==
    \/ \E user_id \in Users : feed_update(user_id)
    \/ is_owner(from_user) /\ \E name \in WarehouseNames : wh_add(name)
    \/ is_owner(from_user) /\ \E name \in ProductNames : prod_add(name)
    \/ is_owner(from_user) /\ \E d \in WizardIncomeData : inc_confirm(d)
    \/ is_owner(from_user) /\ \E d \in CashSaleData : sale_confirm(d)
    \/ cmd_start
    \/ \E action \in {"allow", "deny"}, user_id \in Users : cb_access_req(action, user_id)
    \/ \E user_id \in Users : cmd_allow(user_id)
    \/ \E user_id \in Users : cmd_deny(user_id)
    \/ \E text \in MenuTexts : menu_router(text)
    \/ \E id \in 1..MaxSales : sale_by_id(id)
    \/ \E id \in 1..MaxSales : cb_sale_del(id)

SpecAccess == Init /\ [][NextAccess]_vars

\* ---- claims -----------------------------------------------------------
\* the (warehouse, product) pairs named by a movement or by a Stock row
Pairs ==
    {<<m.warehouse_id, m.product_id>> : m \in stock_movements} \cup
    {<<s.warehouse_id, s.product_id>> : s \in stocks}

MovementsOf(k) ==
    {m \in stock_movements : m.warehouse_id = k[1] /\ m.product_id = k[2]}

StockRowsOf(k) ==
    {s \in stocks : s.warehouse_id = k[1] /\ s.product_id = k[2]}

\* C1: in every committed state each pair with movements has exactly one
\* Stock row, whose qty_kg is the sum of the pair's movements, and a pair
\* without movements has no Stock row.
Conservation ==
    \A k \in Pairs :
        IF MovementsOf(k) = {}
        THEN StockRowsOf(k) = {}
        ELSE /\ Cardinality(StockRowsOf(k)) = 1
             /\ \A s \in StockRowsOf(k) : s.qty_kg = SumQty(MovementsOf(k))

\* C1 witness: a sale was deleted and the balance left is the sum of an
\* income and the remaining sale.
ConservationWitness ==
    /\ reply = "sale_deleted"
    /\ \E k \in Pairs : /\ Cardinality(MovementsOf(k)) >= 2
                        /\ \E s \in StockRowsOf(k) : s.qty_kg = 1

\* C2: no committed state has a Stock row below zero.
NoNegativeStock ==
    \A s \in stocks : s.qty_kg >= 0

\* C3: with sale_confirm tasks interleaving and nothing deleted, the sales
\* committed for a pair never take more than the incomes brought in: the
\* sum of the pair's movements stays >= 0.
ConcurrentSalesNoOverdraw ==
    \A k \in Pairs : SumQty(MovementsOf(k)) >= 0

\* C4: a sale_confirm step whose qty exceeds the stock of its pair writes
\* no row of any table.
AtomicityUnderFailure ==
    [][\A d \in CashSaleData :
          (/\ sale_confirm(d)
           /\ d.qty > StockSum(stock_movements, d.warehouse_id, d.product_id))
          => /\ UNCHANGED tables
             /\ reply' \in {"error",
                            insufficient_answer(
                                StockSum(stock_movements, d.warehouse_id, d.product_id),
                                d.qty)}]_vars

\* C4 witness: a sale of 2 was refused against a stock of 1.
AtomicityUnderFailureWitness ==
    /\ reply = insufficient_answer(1, 2)
    /\ \E s \in stocks : s.qty_kg = 1
    /\ sales # {}

\* C5: cb_inc_del on an income whose removal would leave the stock of its
\* pair negative answers RollbackBlocked and writes nothing.
IncomeDeleteBlocked ==
    [][\A id \in 1..MaxIncomes :
          (/\ cb_inc_del(id)
           /\ id \in Ids(incomes)
           /\ StockSum(stock_movements, Get(incomes, id).warehouse_id,
                       Get(incomes, id).product_id) - Get(incomes, id).qty_kg < 0)
          => /\ UNCHANGED tables
             /\ reply' = "rollback_blocked"]_vars

SaleMoneyMovements(sale) ==
    {m \in money_movements : m.doc_type = "sale" /\ m.doc_id = sale.id}

\* C6: every paid Sale owns exactly one MoneyMovement, of +total_amount,
\* and every unpaid Sale owns none.
SaleOwnsMoneyMovementIffPaid ==
    \A s \in sales :
        IF s.is_paid
        THEN /\ Cardinality(SaleMoneyMovements(s)) = 1
             /\ \A m \in SaleMoneyMovements(s) : m.amount = s.total_amount
        ELSE SaleMoneyMovements(s) = {}

\* C7: cb_deb_paid on an open Debtor sets its is_paid and appends one cash
\* movement of +total_amount, so the cash balance grows by the total.
SettleAddsCash ==
    [][\A id \in 1..MaxDebtors :
          (/\ cb_deb_paid(id)
           /\ id \in Ids(debtors)
           /\ ~Get(debtors, id).is_paid)
          => /\ Get(debtors', id).is_paid
             /\ Cardinality(money_movements') = Cardinality(money_movements) + 1
             /\ show_money(money_movements', "cash", NULL) =
                    show_money(money_movements, "cash", NULL) + Get(debtors, id).total_amount]_vars

\* C8: cb_deb_paid on a Debtor that is already paid answers AlreadySettled
\* and changes no row.
SettleIdempotent ==
    [][\A id \in 1..MaxDebtors :
          (/\ cb_deb_paid(id)
           /\ id \in Ids(debtors)
           /\ Get(debtors, id).is_paid)
          => /\ reply' = "already_settled"
             /\ UNCHANGED tables]_vars

\* the only link from a Debtor to a Sale: equal customer and total
Mirrors(d, s) ==
    /\ d.customer_name = s.customer_name
    /\ d.customer_phone = s.customer_phone
    /\ d.total_amount = s.total_amount

\* C9: every open Debtor has an existing unpaid Sale it mirrors.
OpenDebtorHasUnpaidSale ==
    \A d \in debtors :
        ~d.is_paid => \E s \in sales : ~s.is_paid /\ Mirrors(d, s)

\* C10: every unpaid Sale has an open Debtor mirroring it, and no paid Sale
\* has one.
SaleStatusMatchesDebtor ==
    \A s \in sales :
        IF s.is_paid
        THEN ~\E d \in debtors : ~d.is_paid /\ Mirrors(d, s)
        ELSE \E d \in debtors : ~d.is_paid /\ Mirrors(d, s)

SaleStockMovements(sale) ==
    {m \in stock_movements : m.doc_type = "sale" /\ m.doc_id = sale.id}

IncomeStockMovements(inc) ==
    {m \in stock_movements : m.doc_type = "income" /\ m.doc_id = inc.id}

\* C11: every Sale owns exactly one StockMovement, of -qty_kg on the sale's
\* pair, every Income exactly one, of +qty_kg, and every StockMovement names
\* an existing Sale or Income.
DocumentsOwnStockMovement ==
    /\ \A s \in sales :
          /\ Cardinality(SaleStockMovements(s)) = 1
          /\ \A m \in SaleStockMovements(s) :
                /\ m.qty_kg = -s.qty_kg
                /\ m.warehouse_id = s.warehouse_id
                /\ m.product_id = s.product_id
    /\ \A i \in incomes :
          /\ Cardinality(IncomeStockMovements(i)) = 1
          /\ \A m \in IncomeStockMovements(i) :
                /\ m.qty_kg = i.qty_kg
                /\ m.warehouse_id = i.warehouse_id
                /\ m.product_id = i.product_id
    /\ \A m \in stock_movements :
          \/ m.doc_type = "sale" /\ m.doc_id \in Ids(sales)
          \/ m.doc_type = "income" /\ m.doc_id \in Ids(incomes)

\* C11 witness: a sale was deleted while an income and another sale stay,
\* each with its movement.
DocumentsOwnStockMovementWitness ==
    /\ reply = "sale_deleted"
    /\ incomes # {}
    /\ sales # {}
    /\ Cardinality(stock_movements) = 2

IncomeMoneyMovements(inc) ==
    {m \in money_movements : m.doc_type = "income" /\ m.doc_id = inc.id}

\* C12: an Income whose add_money_entry is set owns exactly one
\* MoneyMovement, of -total_amount; an Income without the flag owns none;
\* every MoneyMovement of doc_type income names an existing Income.
IncomeOwnsMoneyMovementIffFlag ==
    /\ \A i \in incomes :
          IF i.add_money_entry
          THEN /\ Cardinality(IncomeMoneyMovements(i)) = 1
               /\ \A m \in IncomeMoneyMovements(i) : m.amount = -i.total_amount
          ELSE IncomeMoneyMovements(i) = {}
    /\ \A m \in money_movements :
          m.doc_type = "income" => m.doc_id \in Ids(incomes)

\* C12 witness: an income without the flag was saved after an income with
\* the flag was deleted; the only money movement left is a sale's.
IncomeOwnsMoneyMovementIffFlagWitness ==
    /\ reply = "income_saved"
    /\ \E i \in incomes : ~i.add_money_entry
    /\ \E m \in money_movements : m.doc_type = "sale" /\ m.id = 2

RECURSIVE LedgerTotal(_, _, _)
\* the signed total of the ledger rows of one account key
LedgerTotal(ledger, acc, bank) ==
    IF ledger = <<>> THEN 0
    ELSE LET r == Head(ledger)
             signed == IF r.direction = "in" THEN r.amount ELSE -r.amount
         IN (IF r.account_type = acc /\ r.bank_id = bank THEN signed ELSE 0)
            + LedgerTotal(Tail(ledger), acc, bank)

\* C13: for every account key the signed total of the MoneyLedger rows is
\* the sum of the key's MoneyMovement amounts, and the ledger is what
\* recalc_money_ledger builds from the movements.
LedgerMatchesMovements ==
    /\ \A acc \in AccountTypes, bank \in BankInputs :
          LedgerTotal(money_ledger, acc, bank) = show_money(money_movements, acc, bank)
    /\ money_ledger = recalc_money_ledger(money_movements)

\* the (warehouse, product) pairs a document of SpecPairs can name
AllPairs == (1..MaxWarehouses) \X PairProductNames

\* the Stock row of pair k reads q
StockRowIs(rows, k, q) ==
    \E s \in rows : s.warehouse_id = k[1] /\ s.product_id = k[2] /\ s.qty_kg = q

\* C14: a sale_confirm that saves a sale of qty q at price p lowers the
\* stock of its pair by q; a paid sale adds one money movement of +q*p on
\* its account and no Debtor; an unpaid sale adds one open Debtor with the
\* sale's customer, qty, price and total q*p, and changes no cash balance.
SaleConfirmEffect ==
    [][\A d \in PairSaleData :
          (sale_confirm(d) /\ reply' = "sale_saved") =>
             LET k == <<d.warehouse_id, d.product_id>>
                 before == SumQty(MovementsOf(k))
                 total == d.qty * d.price
                 new_mm == money_movements' \ money_movements
                 new_deb == debtors' \ debtors
             IN /\ StockSum(stock_movements', k[1], k[2]) = before - d.qty
                /\ StockRowIs(stocks', k, before - d.qty)
                /\ money_movements \subseteq money_movements'
                /\ debtors \subseteq debtors'
                /\ IF d.is_paid
                   THEN /\ Cardinality(new_mm) = 1
                        /\ \A m \in new_mm : /\ m.amount = total
                                             /\ m.account_type = d.account_type
                                             /\ m.bank_id = d.bank_id
                        /\ show_money(money_movements', d.account_type, d.bank_id) =
                              show_money(money_movements, d.account_type, d.bank_id) + total
                        /\ new_deb = {}
                   ELSE /\ Cardinality(new_deb) = 1
                        /\ \A x \in new_deb : /\ ~x.is_paid
                                              /\ x.total_amount = total
                                              /\ x.customer_name = d.customer_name
                                              /\ x.customer_phone = d.customer_phone
                                              /\ x.qty_kg = d.qty
                                              /\ x.price_per_kg = d.price
                        /\ \A acc \in AccountTypes, bank \in BankInputs :
                              show_money(money_movements', acc, bank) =
                                  show_money(money_movements, acc, bank)]_vars

\* C14 witness: a sale was saved, and there are a sale paid to a bank and
\* an unpaid sale with its open Debtor.
SaleConfirmEffectWitness ==
    /\ reply = "sale_saved"
    /\ \E s \in sales : s.is_paid /\ s.account_type = "bank"
    /\ \E s \in sales : ~s.is_paid
    /\ \E x \in debtors : ~x.is_paid /\ x.total_amount > 0
    /\ \E m \in money_movements : m.doc_type = "sale" /\ m.bank_id # NULL

\* C15: inc_confirm on an existing warehouse and product (and an existing
\* bank, if it pays from one) saves the income whatever the balance of the
\* pair, raises that balance by qty and leaves every other pair's balance
\* as it was.
IncomeRaisesStock ==
    [][\A d \in PairIncomeData :
          (/\ inc_confirm(d)
           /\ d.warehouse_id \in Ids(warehouses)
           /\ d.product_id \in Ids(products)
           /\ d.account_type = "cash" \/ d.bank_id \in Ids(banks)) =>
             LET k == <<d.warehouse_id, d.product_id>>
                 before == SumQty(MovementsOf(k))
             IN /\ reply' = "income_saved"
                /\ StockSum(stock_movements', k[1], k[2]) = before + d.qty
                /\ StockRowIs(stocks', k, before + d.qty)
                /\ \A o \in AllPairs \ {k} :
                      /\ StockSum(stock_movements', o[1], o[2]) =
                            StockSum(stock_movements, o[1], o[2])
                      /\ {s \in stocks' : s.warehouse_id = o[1] /\ s.product_id = o[2]} =
                            StockRowsOf(o)]_vars

\* C15 witness: with two products in the catalog, an income of 1 was saved
\* on a pair whose balance was -2.
IncomeRaisesStockWitness ==
    /\ reply = "income_saved"
    /\ \E i \in incomes : i.product_id = 1 /\ i.qty_kg = 1
    /\ StockRowIs(stocks, <<1, 1>>, -1)
    /\ Cardinality(products) = 2

\* C16: sale_confirm on an existing warehouse, product and account answers
\* "not enough stock", naming the balance, and writes nothing exactly when
\* qty is above the sum of the pair's movements; otherwise it saves the
\* sale, so a sale of the whole balance leaves the balance at zero.
InsufficientStockExactly ==
    [][\A d \in PairSaleData :
          (/\ sale_confirm(d)
           /\ d.warehouse_id \in Ids(warehouses)
           /\ d.product_id \in Ids(products)
           /\ d.account_type = "cash" \/ d.bank_id \in Ids(banks)) =>
             LET k == <<d.warehouse_id, d.product_id>>
                 balance == SumQty(MovementsOf(k))
             IN IF d.qty > balance
                THEN /\ reply' = "sale_insufficient have " \o fmt_kg(balance)
                                    \o " need " \o fmt_kg(d.qty)
                     /\ UNCHANGED tables
                ELSE /\ reply' = "sale_saved"
                     /\ StockSum(stock_movements', k[1], k[2]) = balance - d.qty
                     /\ d.qty = balance => StockRowIs(stocks', k, 0)]_vars

\* C16 witness: a sale of 2 was saved against a balance of 2 and the
\* balance is 0.
InsufficientStockExactlyWitness ==
    /\ reply = "sale_saved"
    /\ \E s \in sales : s.qty_kg = 2 /\ s.product_id = 2
    /\ \E i \in incomes : i.qty_kg = 2 /\ i.product_id = 2
    /\ StockRowIs(stocks, <<1, 2>>, 0)

\* C17: no step turns the is_paid of a Sale or of a Debtor from true to
\* false: a paid row is paid after every step that keeps it.
PaymentOneWay ==
    [][/\ \A s \in sales : s.is_paid => \A n \in sales' : n.id = s.id => n.is_paid
       /\ \A d \in debtors : d.is_paid => \A n \in debtors' : n.id = d.id => n.is_paid]_vars

\* C17 witness: a sale marked paid and its closed debtor are still paid
\* after a later income was saved.
PaymentOneWayWitness ==
    /\ reply = "income_saved"
    /\ \E s \in sales : s.is_paid /\ SaleMoneyMovements(s) = {}
    /\ \E d \in debtors : d.is_paid

\* the ledger rows cb_sale_paid_id wrote for one sale
PaymentRows(ledger, sale_id) ==
    {i \in 1..Len(ledger) : ledger[i].note = <<"sale_payment", sale_id>>}

\* C20: cb_sale_paid_id on a paid Sale answers "already paid" and changes no
\* row; on an unpaid Sale it records the payment once, so after two calls in
\* a row the ledger holds one payment row of the sale.
MarkPaidOnce ==
    [][\A id \in 1..MaxSales :
          (cb_sale_paid_id(id) /\ id \in Ids(sales)) =>
             IF Get(sales, id).is_paid
             THEN /\ reply' = "sale_already_paid"
                  /\ UNCHANGED tables
                  /\ Cardinality(PaymentRows(money_ledger', id)) <= 1
             ELSE /\ reply' = "sale_marked_paid"
                  /\ Get(sales', id).is_paid
                  /\ Len(money_ledger') = Len(money_ledger) + 1
                  /\ Cardinality(PaymentRows(money_ledger', id)) = 1]_vars

\* C20 witness: the second call was refused and the ledger holds the one
\* payment row of the first.
MarkPaidOnceWitness ==
    /\ reply = "sale_already_paid"
    /\ \E s \in sales : s.is_paid /\ Cardinality(PaymentRows(money_ledger, s.id)) = 1

\* C18: deleting a Sale or an Income and entering a document with the same
\* field values saves the document and leaves every stock balance and
\* every cash balance as it was before the delete.
EditIdenticalNeutral ==
    [][\A t \in Tasks :
          /\ edit_sale_create(t) =>
                /\ reply' = "sale_saved"
                /\ StockBalances(stock_movements') = tasks[t].stock_before
                /\ MoneyBalances(money_movements') = tasks[t].money_before
          /\ edit_inc_create(t) =>
                /\ reply' = "income_saved"
                /\ StockBalances(stock_movements') = tasks[t].stock_before
                /\ MoneyBalances(money_movements') = tasks[t].money_before]_vars

\* C19: at every moment of a create or a delete running statement by
\* statement, the committed rows a reader can select hold every Sale and
\* Income with its stock movement, every paid Sale and flagged Income with
\* its money movement, no movement without its document, and balance rows
\* rebuilt from exactly those movements.
ReadersSeeWholeDocuments ==
    /\ DocumentsOwnStockMovement
    /\ SaleOwnsMoneyMovementIffPaid
    /\ IncomeOwnsMoneyMovementIffFlag
    /\ \A m \in money_movements : m.doc_type = "sale" => m.doc_id \in Ids(sales)
    /\ stocks = recalc_stocks(stocks, stock_movements)
    /\ money_ledger = recalc_money_ledger(money_movements)

\* C19 witness: the reader runs while one task has deleted a sale's
\* movements and not yet the sale, and the committed tables still hold the
\* sale with its movements.
ReadersSeeWholeDocumentsWitness ==
    /\ reply = "stocks_table"
    /\ \E t \in Tasks : /\ tasks[t].pc = "movements_deleted"
                        /\ tasks[t].data \in Ids(sales)
                        /\ tasks[t].tx.stock_movements # stock_movements

\* C21: when cb_sale_paid_id marks an unpaid sale paid, the Debtor row that
\* this sale's sale_confirm inserted is the one row of debtors that is
\* closed, and every other Debtor row is left as it was.
PaidClosesOwnDebtor ==
    [][\A t \in Tasks :
          (/\ tasks[t].pc = "unpaid_sale"
           /\ cb_sale_paid_id(tasks[t].sale_id)
           /\ reply' = "sale_marked_paid")
          => debtors' = {IF d.id = tasks[t].debtor_id
                         THEN [d EXCEPT !.is_paid = TRUE] ELSE d : d \in debtors}]_vars

\* the movements a document owns by (doc_type, doc_id)
OwnedBy(rows, doc_type, doc_id) ==
    {m \in rows : m.doc_type = doc_type /\ m.doc_id = doc_id}

\* what deleting document doc of the given type must do to the movement
\* logs and to the balance of the document's pair
DeleteFrame(doc_type, doc, delta) ==
    /\ stock_movements' = stock_movements \ OwnedBy(stock_movements, doc_type, doc.id)
    /\ money_movements' = money_movements \ OwnedBy(money_movements, doc_type, doc.id)
    /\ StockSum(stock_movements', doc.warehouse_id, doc.product_id) =
           StockSum(stock_movements, doc.warehouse_id, doc.product_id) + delta
    /\ \A r \in stocks' :
           (r.warehouse_id = doc.warehouse_id /\ r.product_id = doc.product_id)
           => r.qty_kg = StockSum(stock_movements, doc.warehouse_id, doc.product_id) + delta
    /\ UNCHANGED <<catalogs, debtors>>

\* C22: deleting an existing Sale or Income removes the document row and
\* exactly the movements with the document's (doc_type, doc_id); movements
\* of other documents, also those of a document of the other type with the
\* same id, stay; deleting a Sale is never refused and raises the balance
\* of its pair by the sale's qty.
DeleteRemovesExactlyOwnMovements ==
    [][/\ \A id \in Ids(sales) :
             cb_sale_del(id)
             => /\ reply' = "sale_deleted"
                /\ sales' = sales \ {Get(sales, id)}
                /\ incomes' = incomes
                /\ DeleteFrame("sale", Get(sales, id), Get(sales, id).qty_kg)
       /\ \A id \in Ids(incomes) :
             cb_inc_del(id)
             => /\ reply' = "income_deleted"
                /\ incomes' = incomes \ {Get(incomes, id)}
                /\ sales' = sales
                /\ DeleteFrame("income", Get(incomes, id), -Get(incomes, id).qty_kg)]_vars

\* C22 witness: the only sale was deleted while income 1 with both of its
\* movements is still there.
DeleteRemovesExactlyOwnMovementsWitness ==
    /\ reply = "sale_deleted"
    /\ sales = {}
    /\ 1 \in Ids(incomes)
    /\ OwnedBy(stock_movements, "income", 1) # {}
    /\ OwnedBy(money_movements, "income", 1) # {}
    /\ OwnedBy(stock_movements, "sale", 1) = {}

\* C24: cb_sale_del and cb_inc_del on an id that is not in the table answer
\* "not found" and change no row; after a delete the id is not in the table,
\* so a second delete of the same document is such a call.
DeleteMissingChangesNothing ==
    [][/\ \A id \in 1..MaxSales :
             cb_sale_del(id)
             => /\ id \notin Ids(sales')
                /\ id \notin Ids(sales) => (reply' = "sale_not_found" /\ UNCHANGED tables)
       /\ \A id \in 1..MaxIncomes :
             cb_inc_del(id)
             => /\ id \notin Ids(incomes')
                /\ id \notin Ids(incomes) => (reply' = "income_not_found" /\ UNCHANGED tables)]_vars

\* C24 witness: a delete was answered "not found" while the ledger holds a
\* row that no movement backs, which a recompute would have dropped.
DeleteMissingChangesNothingWitness ==
    /\ reply = "income_not_found"
    /\ incomes = {}
    /\ Len(money_ledger) > Cardinality(money_movements)

\* the same movements inserted in another order: the rowids permuted by f
Reinserted(sm, f) == {[m EXCEPT !.id = f[m.id]] : m \in sm}

\* C27: the Stock table is what recalc_stocks builds from the movements in
\* any order of insertion.
RecalcIgnoresInsertionOrder ==
    \A f \in Permutations(Ids(stock_movements)) :
        recalc_stocks(stocks, Reinserted(stock_movements, f)) = stocks

\* C27 witness: one pair has an income of 2 and two sales of 1, and its
\* Stock row is 0.
RecalcIgnoresInsertionOrderWitness ==
    \E m1, m2, m3 \in stock_movements :
        /\ m1.product_id = m2.product_id /\ m2.product_id = m3.product_id
        /\ m1.qty_kg = 2 /\ m2.qty_kg = -1 /\ m3.qty_kg = -1 /\ m2.id # m3.id
        /\ [warehouse_id |-> m1.warehouse_id, product_id |-> m1.product_id, qty_kg |-> 0]
               \in stocks

CatalogNamesUnique ==
    \A rows \in {warehouses, products, banks} :
        \A a, b \in rows : a.name = b.name => a = b

\* C26 witness: two tasks selected the same missing warehouse name, one
\* inserted it and the INSERT of the other was rejected.
CatalogNamesUniqueWitness ==
    /\ reply = "integrity_error"
    /\ Cardinality(warehouses) = 1
    /\ \A t \in Tasks : tasks[t].pc = "idle"

\* C23: no sequence of wizard messages and callbacks makes sale_confirm or
\* inc_confirm insert a document with a quantity that is not positive or
\* with a negative price: every Sale row and every Income row has
\* qty_kg > 0 and price_per_kg >= 0.
DocumentsHaveValidNumbers ==
    /\ \A s \in sales : s.qty_kg > 0 /\ s.price_per_kg >= 0
    /\ \A i \in incomes : i.qty_kg > 0 /\ i.price_per_kg >= 0

\* C30: a sale_confirm:yes callback writes nothing unless the FSM state of
\* the conversation is SaleWizard.confirm: a step of sale_confirm taken in
\* any other state (another step, another wizard, no state) leaves every
\* table as it was.
SaleConfirmWritesOnlyInConfirm ==
    [][(sale_confirm_callback("yes") /\ fsm.state # SaleWizard("confirm"))
          => UNCHANGED tables]_vars

\* C28: a text message sent in a wizard input state is delivered to the
\* handler of that state and not to menu_router: whenever the conversation
\* is in SaleWizard.qty, the router gives a text that holds a number > 0 to
\* sale_qty.
TextReachesStateHandler ==
    fsm.state = SaleWizard("qty")
        => \A text \in NumberTexts :
              dec(text) > 0 => Route(fsm.state, text) = "sale_qty"

\* C29: one sale wizard run creates at most one Sale, however often and in
\* whatever interleaving its sale_confirm:yes callback is delivered: in a
\* behaviour that has one wizard run with committed sales, the table sales
\* holds at most one row.
OneRunOneSale == Cardinality(sales) <= 1

\* C32: cb_sale_del leaves the debtors table unchanged: deleting a Sale,
\* paid or unpaid, found or not, neither deletes nor closes a Debtor row.
SaleDelKeepsDebtors ==
    [][\A id \in 1..MaxSales : cb_sale_del(id) => debtors' = debtors]_vars

\* an unpaid sale was deleted, no Sale is left, and the Debtor that this
\* sale created is still in the table and open
SaleDelKeepsDebtorsWitness ==
    /\ reply = "sale_deleted"
    /\ sales = {}
    /\ \E t \in Tasks :
          /\ tasks[t].pc = "unpaid_sale"
          /\ \E d \in debtors : d.id = tasks[t].debtor_id /\ ~d.is_paid

MigrationIdempotent ==
    [][main =>
         /\ ~(stock_movements = {} /\ money_movements = {}) => UNCHANGED movements
         /\ (stock_movements = {} /\ money_movements = {}) =>
               /\ \A s \in sales :
                     /\ Cardinality(OwnedBy(stock_movements', "sale", s.id)) = 1
                     /\ Cardinality(OwnedBy(money_movements', "sale", s.id)) =
                           IF s.is_paid THEN 1 ELSE 0
               /\ \A i \in incomes :
                     /\ Cardinality(OwnedBy(stock_movements', "income", i.id)) = 1
                     /\ Cardinality(OwnedBy(money_movements', "income", i.id)) =
                           IF i.add_money_entry THEN 1 ELSE 0
               /\ Cardinality(stock_movements') =
                     Cardinality(sales) + Cardinality(incomes)
               /\ Cardinality(money_movements') =
                     Cardinality({s \in sales : s.is_paid})
                       + Cardinality({i \in incomes : i.add_money_entry})
         /\ StartupMovements(stock_movements', money_movements', sales', incomes')
               = <<stock_movements', money_movements'>>]_vars

\* the program was started on two sales, one of them paid, and an income:
\* three stock movements and one money movement were generated
MigrationIdempotentWitness ==
    /\ reply = "bot_started"
    /\ Cardinality(sales) = 2
    /\ Cardinality(incomes) = 1
    /\ Cardinality(stock_movements) = 3
    /\ Cardinality(money_movements) = 1

\* C31: a message or callback from a user who is neither the owner nor in
\* allowed_users leaves the ledger unchanged and reveals no document: while
\* the sender of the update is not allowed, no step changes sales, incomes,
\* debtors or the movement tables, and sale_by_id does not answer with the
\* card of a sale.
NotAllowedTouchesNothing ==
    [][~is_allowed(from_user) =>
         /\ UNCHANGED <<documents, movements>>
         /\ \A id \in 1..MaxSales : sale_by_id(id) => reply' # "sale_card"]_vars

\* C35: after the owner answers an access request of a user with deny, that
\* user is not allowed, whatever was granted before.
DenyRevokesAccess ==
    [][\A user_id \in Users :
          (is_owner(from_user) /\ cb_access_req("deny", user_id))
             => user_id \notin allowed_users' /\ ~is_owner(user_id)]_vars

====
